---- MODULE Spec2Model ----
(***************************************************************************)
(* Model of the heat-flow quality-assurance tool hfqa_tool:                *)
(*   Combined_score.py   - U score, T/TC scores, M score, P flags          *)
(*   Vocabulary_check.py - vocabulary and range validator                  *)
(*                                                                         *)
(* Cells are strings, as they are after the csv has been read.  A float is *)
(* an exact rational [nan, num, den] (den > 0); every comparison with NaN  *)
(* is false, as in Python.  Rounding of binary floating point is not       *)
(* represented, and the cells drawn hold no exponent, underscore or        *)
(* infinity forms.                                                         *)
(***************************************************************************)
EXTENDS Integers, Sequences, FiniteSets, TLC

VARIABLES
    og,        \* the table as read from the csv: index label -> row
    pc,        \* position in the pipeline
    df,        \* the table of records being processed: index label -> row
    id,        \* the index label the current loop is at
    dtype,     \* the columns of df whose pandas dtype is object
    COV,       \* calc_U_score: one row per record (COV_percent, U_score)
    T_score_df,\* the frame of the sub-scorers, merge_Tscore, T_quality and M_score:
               \* index label -> row, a row being a function of the frame's columns
    PFlag_df,  \* p_flag: one code per record
    m_dict,    \* obligation: column -> the cell of row 0 of the file
    domain,    \* obligation: column -> the cell of row 1 of the file
    error_df,  \* vocabcheck: index label -> (column -> error string)
    result,    \* the frame a pipeline returns: index label -> row
    local      \* vocabcheck: the local variables of the loops over the cells

vars ==
    <<og, pc, df, id, dtype, COV, T_score_df, PFlag_df, m_dict, domain, error_df, result, local>>

(***************************************************************************)
(* Bounds                                                                  *)
(***************************************************************************)
MaxRowsU == 1      \* records of a table scored by calc_U_score
MaxRowsM == 2      \* records of a table scored by complete_MScore_calc
MaxScore == 32     \* largest sub-score drawn for T_quality and M_score, in twentieths
MaxRowsP == 1      \* records of a table flagged by p_flag
MaxRowsV == 1      \* records of a table checked by Vocabulary_check.attachOG
MaxRowsE == 1      \* records of a table of the reduced record set
MaxRowsC == 2      \* records of a table scored by Combined_score.attachOG
MaxRowsB == 1      \* records of a table of borehole records
MaxRowsT == 1      \* records of a table of probe records
MaxRowsW == 1      \* records of a table whose cells vocabcheck loops over

(***************************************************************************)
(* Python strings                                                          *)
(***************************************************************************)
Char(s, i) == SubSeq(s, i, i)

\* Python: sub in s
Contains(sub, s) ==
    \E i \in 1..(Len(s) - Len(sub) + 1) : SubSeq(s, i, i + Len(sub) - 1) = sub

\* Python: s.startswith(pre)
StartsWith(s, pre) == Len(s) >= Len(pre) /\ SubSeq(s, 1, Len(pre)) = pre

UpperChars == "ABCDEFGHIJKLMNOPQRSTUVWXYZ"
LowerChars == "abcdefghijklmnopqrstuvwxyz"

LowerOf ==
    [c \in {Char(UpperChars, i) : i \in 1..26} |->
        Char(LowerChars, CHOOSE i \in 1..26 : Char(UpperChars, i) = c)]

LowerChar(c) == IF c \in DOMAIN LowerOf THEN LowerOf[c] ELSE c

RECURSIVE Lower(_)
\* Python: s.lower()
Lower(s) == IF Len(s) = 0 THEN "" ELSE LowerChar(Char(s, 1)) \o Lower(Tail(s))

IsSpace(c) == c = " "

RECURSIVE LStrip(_)
LStrip(s) == IF Len(s) > 0 /\ IsSpace(Char(s, 1)) THEN LStrip(Tail(s)) ELSE s

RECURSIVE RStrip(_)
RStrip(s) ==
    IF Len(s) > 0 /\ IsSpace(Char(s, Len(s))) THEN RStrip(SubSeq(s, 1, Len(s) - 1)) ELSE s

\* Python: s.strip()
Strip(s) == RStrip(LStrip(s))

\* Python: s.find(sep, k), 1-based, 0 when sep does not occur from position k on
Find(s, sep, k) ==
    LET pos == {p \in k..Len(s) : Char(s, p) = sep}
    IN  IF pos = {} THEN 0 ELSE CHOOSE p \in pos : \A q \in pos : p <= q

\* the pieces of s from position k on
RECURSIVE SplitFrom(_, _, _)
SplitFrom(s, sep, k) ==
    LET p == Find(s, sep, k)
    IN  IF p = 0 THEN <<SubSeq(s, k, Len(s))>>
        ELSE <<SubSeq(s, k, p - 1)>> \o SplitFrom(s, sep, p + 1)

\* Python: s.split(sep), sep a single character
Split(s, sep) == SplitFrom(s, sep, 1)

(***************************************************************************)
(* Python floats                                                           *)
(***************************************************************************)
F(n, d) == [nan |-> FALSE, num |-> n, den |-> d]
NaN == [nan |-> TRUE, num |-> 0, den |-> 1]
Num(n) == F(n, 1)

isnan(a) == a.nan
LT(a, b) == ~a.nan /\ ~b.nan /\ a.num * b.den < b.num * a.den
LE(a, b) == ~a.nan /\ ~b.nan /\ a.num * b.den <= b.num * a.den
GT(a, b) == LT(b, a)
GE(a, b) == LE(b, a)
EQ(a, b) == ~a.nan /\ ~b.nan /\ a.num * b.den = b.num * a.den
NE(a, b) == ~EQ(a, b)
RECURSIVE GCD(_, _)
GCD(m, n) == IF n = 0 THEN m ELSE GCD(n, m % n)

\* the rational n / d in lowest terms with a positive denominator (d # 0)
Q(n, d) ==
    LET m == IF d < 0 THEN -n ELSE n
        e == IF d < 0 THEN -d ELSE d
        g == GCD(IF m < 0 THEN -m ELSE m, e)
    IN  F(m \div g, e \div g)

Abs(a) == IF a.nan THEN NaN ELSE F(IF a.num < 0 THEN -a.num ELSE a.num, a.den)
Neg(a) == IF a.nan THEN NaN ELSE F(-a.num, a.den)
Add(a, b) == IF a.nan \/ b.nan THEN NaN ELSE Q(a.num * b.den + b.num * a.den, a.den * b.den)
Mul(a, b) == IF a.nan \/ b.nan THEN NaN ELSE Q(a.num * b.num, a.den * b.den)
\* b is not zero
Div(a, b) == IF a.nan \/ b.nan THEN NaN ELSE Q(a.num * b.den, a.den * b.num)

Digits == "0123456789"
DigitOf == [c \in {Char(Digits, i) : i \in 1..10} |-> (CHOOSE i \in 1..10 : Char(Digits, i) = c) - 1]
IsDigit(c) == c \in DOMAIN DigitOf
DigitVal(c) == DigitOf[c]

RECURSIVE AllDigits(_)
AllDigits(s) == Len(s) = 0 \/ (IsDigit(Char(s, 1)) /\ AllDigits(Tail(s)))

RECURSIVE DecVal(_, _)
DecVal(s, acc) == IF Len(s) = 0 THEN acc ELSE DecVal(Tail(s), 10 * acc + DigitVal(Char(s, 1)))

RECURSIVE Pow10(_)
Pow10(k) == IF k = 0 THEN 1 ELSE 10 * Pow10(k - 1)

PointAt(s) == IF Contains(".", s) THEN CHOOSE i \in 1..Len(s) : Char(s, i) = "." /\ ~Contains(".", SubSeq(s, 1, i - 1)) ELSE 0

\* the unsigned decimal literal: digits, digits.digits, digits. or .digits
IsDecimal(s) ==
    LET p == PointAt(s) IN
    IF p = 0 THEN Len(s) > 0 /\ AllDigits(s)
    ELSE /\ AllDigits(SubSeq(s, 1, p - 1))
         /\ AllDigits(SubSeq(s, p + 1, Len(s)))
         /\ Len(s) > 1

DecimalVal(s) ==
    LET p == PointAt(s) IN
    IF p = 0 THEN Num(DecVal(s, 0))
    ELSE LET ip == SubSeq(s, 1, p - 1)
             fp == SubSeq(s, p + 1, Len(s))
         IN  Q(DecVal(ip, 0) * Pow10(Len(fp)) + DecVal(fp, 0), Pow10(Len(fp)))

\* Python: float(s) for a string s; ok = FALSE stands for ValueError
PyFloat(s) ==
    LET t == Strip(s)
        signed == Len(t) > 0 /\ Char(t, 1) \in {"-", "+"}
        body == IF signed THEN Tail(t) ELSE t
    IN  IF Len(body) = 3 /\ Lower(body) = "nan" THEN [ok |-> TRUE, f |-> NaN]
        ELSE IF IsDecimal(body)
             THEN [ok |-> TRUE,
                   f |-> IF signed /\ Char(t, 1) = "-" THEN Neg(DecimalVal(body)) ELSE DecimalVal(body)]
             ELSE [ok |-> FALSE, f |-> NaN]

(***************************************************************************)
(* Tables                                                                  *)
(***************************************************************************)
Range(f) == {f[x] : x \in DOMAIN f}

\* Combined_score.py, section 4.1
NumC == <<"P4", "P5", "P6", "P10", "P11", "C1", "C2", "C4", "C5", "C6", "C22", "C23", "C24",
          "C27", "C28", "C29", "C30", "C33", "C34", "C37", "C39", "C40", "C47">>
StrC == <<"P7", "P9", "P12", "P13", "C3", "C11", "C12", "C13", "C14", "C15", "C16", "C17",
          "C18", "C19", "C20", "C21", "C31", "C32", "C35", "C36", "C41", "C42", "C43", "C44",
          "C45", "C46", "C48">>
DateC == <<"C38">>

\* Vocabulary_check.py, section 3.1
VC_NumC == <<"P1", "P2", "P4", "P5", "P6", "P10", "P11", "C1", "C4", "C5", "C6", "C22", "C23",
             "C24", "C27", "C28", "C29", "C30", "C33", "C34", "C37", "C39", "C40", "C47">>
VC_StrC == <<"P7", "P9", "P12", "P13", "C3", "C11", "C12", "C13", "C14", "C15", "C17", "C18",
             "C19", "C21", "C25", "C26", "C31", "C32", "C35", "C36", "C41", "C42", "C43",
             "C44", "C45", "C46", "C48">>

\* a row whose cells are all empty; pandas reads an empty cell as NaN, str(NaN) = "nan".
\* A table carries the ID column and the columns the operation under study reads.
EmptyRow(columns) == [c \in {"ID"} \cup columns |-> "nan"]

\* the descriptive rows of the two header forms; only og.at[0, "ID"] decides the form
HeaderRows(form, columns) ==
    IF form = "Obligation"
    THEN [i \in 0..6 |-> [EmptyRow(columns) EXCEPT !["ID"] = IF i = 0 THEN "Obligation" ELSE "-"]]
    ELSE IF form = "Short Name"
    THEN [i \in 0..0 |-> [EmptyRow(columns) EXCEPT !["ID"] = "Short Name"]]
    ELSE <<>>

Forms == {"Obligation", "Short Name", "none"}

NHeader(form) == IF form = "Obligation" THEN 7 ELSE IF form = "Short Name" THEN 1 ELSE 0

\* the table made of the header rows of form followed by the records data[1..n]
Table(form, columns, data) ==
    LET h == NHeader(form) IN
    [i \in 0..(h + Len(data) - 1) |->
        IF i < h THEN HeaderRows(form, columns)[i] ELSE data[i - h + 1]]

MinLabel(t) == CHOOSE i \in DOMAIN t : \A j \in DOMAIN t : i <= j
MaxLabel(t) == CHOOSE i \in DOMAIN t : \A j \in DOMAIN t : i >= j

\* Combined_score.remove_rows: the records, re-indexed from 1 under a header form
remove_rows(t) ==
    IF t[0]["ID"] = "Obligation" THEN [i \in 1..(MaxLabel(t) + 1 - 7) |-> t[i + 6]]
    ELSE IF t[0]["ID"] = "Short Name" THEN [i \in 1..(MaxLabel(t) + 1 - 1) |-> t[i]]
    ELSE t

\* Combined_score.change_type: numeric columns to float (NaN when float() raises),
\* string columns to lower case
change_type(t) ==
    [i \in DOMAIN t |->
        [c \in DOMAIN t[i] |->
            IF c \in Range(NumC)
            THEN (IF PyFloat(t[i][c]).ok THEN PyFloat(t[i][c]).f ELSE NaN)
            ELSE IF c \in Range(StrC) THEN Lower(t[i][c])
            ELSE t[i][c]]]

\* change_type works in place and remove_rows returns a table without header rows as it
\* is: after a first call such a table og is the frame d that the call returned
converted(t, d) == t[0]["ID"] \notin {"Obligation", "Short Name"} /\ DOMAIN d = DOMAIN t

\* change_type(remove_rows(t)); a second call on a table already converted finds floats
\* and lower-case strings, which float(), str() and lower() leave as they are
prepare(t, d) == IF converted(t, d) THEN t ELSE change_type(remove_rows(t))

\* pandas.read_csv: a column is of dtype object when one of its cells is text; the cells
\* of the descriptive rows are text, an empty cell is NaN
object_columns(t) ==
    {c \in DOMAIN t[0] :
        \/ t[0]["ID"] \in {"Obligation", "Short Name"}
        \/ \E i \in DOMAIN t : ~PyFloat(t[i][c]).ok}

(***************************************************************************)
(* 5. U score                                                              *)
(***************************************************************************)
\* COV_prcnt without the absolute value of the uncertainty
COV_prcnt_signed(r) ==
    LET HFDunc == r["C2"]
        HFDmean == Abs(r["C1"])
        non_zero_mask == NE(HFDmean, Num(0)) /\ ~isnan(HFDmean) /\ ~isnan(HFDunc)
    IN  IF non_zero_mask THEN Mul(Div(HFDunc, HFDmean), Num(100)) ELSE NaN

\* calc_U_score, lines 174-180: the coefficient of variation of one record
COV_prcnt(r) ==
    LET HFDunc == Abs(r["C2"])
        HFDmean == Abs(r["C1"])
        non_zero_mask == NE(HFDmean, Num(0)) /\ ~isnan(HFDmean) /\ ~isnan(HFDunc)
    IN  IF non_zero_mask THEN Mul(Div(HFDunc, HFDmean), Num(100)) ELSE NaN

\* U_score with the boundaries 5, 15 and 25 given to the upper grade
U_score_upper(cov) ==
    IF isnan(cov) THEN "Ux"
    ELSE IF LT(cov, Num(5)) THEN "U1"
    ELSE IF LE(Num(5), cov) /\ LT(cov, Num(15)) THEN "U2"
    ELSE IF LE(Num(15), cov) /\ LT(cov, Num(25)) THEN "U3"
    ELSE IF GE(cov, Num(25)) THEN "U4"
    ELSE "Ux"

\* calc_U_score, lines 188-209: the grade of one coefficient of variation
U_score(cov) ==
    IF isnan(cov) THEN "Ux"
    ELSE IF LT(cov, Num(5)) THEN "U1"
    ELSE IF LE(Num(5), cov) /\ LE(cov, Num(15)) THEN "U2"
    ELSE IF LT(Num(15), cov) /\ LE(cov, Num(25)) THEN "U3"
    ELSE IF GT(cov, Num(25)) THEN "U4"
    ELSE "Ux"

\* one iteration of the loop of calc_U_score; COV is indexed from 1 (line 211)
calc_U_score ==
    /\ pc = "calc_U_score"
    /\ id \in DOMAIN df
    /\ LET cov == COV_prcnt(df[id])
       IN  COV' = Append(COV, [COV_percent |-> cov, U_score |-> U_score(cov)])
    /\ IF id = MaxLabel(df) THEN pc' = "done" /\ id' = id ELSE pc' = pc /\ id' = id + 1
    /\ UNCHANGED <<og, df, dtype, T_score_df, PFlag_df, m_dict, domain, error_df, result, local>>

\* CompleteUscore_calc: remove_rows and change_type before calc_U_score
CompleteUscore_calc ==
    /\ pc = "CompleteUscore_calc"
    /\ df' = prepare(og, df)
    /\ og' = IF og[0]["ID"] \in {"Obligation", "Short Name"} THEN og ELSE df'
    /\ dtype' = IF converted(og, df) THEN dtype ELSE object_columns(og)
    /\ id' = MinLabel(df')
    /\ pc' = "calc_U_score"
    /\ UNCHANGED <<COV, T_score_df, PFlag_df, m_dict, domain, error_df, result, local>>

\* the cells drawn for C1 and C2
C1Cells == {"100", "-100", "0", "nan"}
C2Cells == {"4.99", "5", "15", "15.01", "25", "25.01", "-15", "nan", "n/a"}

UCols == {"C1", "C2"}
URecs == {[EmptyRow(UCols) EXCEPT !["C1"] = c1, !["C2"] = c2] : c1 \in C1Cells, c2 \in C2Cells}

InitU ==
    /\ \E form \in Forms, n \in 1..MaxRowsU :
          \E data \in [1..n -> URecs] : og = Table(form, UCols, data)
    /\ pc = "CompleteUscore_calc"
    /\ df = <<>>
    /\ id = 0
    /\ dtype = {}
    /\ COV = <<>>
    /\ T_score_df = <<>>
    /\ PFlag_df = <<>>
    /\ m_dict = <<>>
    /\ domain = <<>>
    /\ error_df = <<>>
    /\ result = <<>>
    /\ local = <<>>

NextU == CompleteUscore_calc \/ calc_U_score

SpecU == InitU /\ [][NextU]_vars

\* the record of df that row k of COV was computed from
RecOfCOV(k) == df[MinLabel(df) + k - 1]

\* C1: every defined coefficient of variation gets exactly one grade: COV < 5 is U1,
\* 5 <= COV <= 15 is U2, 15 < COV <= 25 is U3, COV > 25 is U4; the boundary values 5 and
\* 15 are U2 and 25 is U3.
C1_UGradeOfCOV ==
    \A k \in 1..Len(COV) :
        LET c == COV[k].COV_percent
            u == COV[k].U_score
        IN  ~isnan(c) =>
              /\ u \in {"U1", "U2", "U3", "U4"}
              /\ (u = "U1") = LT(c, Num(5))
              /\ (u = "U2") = (LE(Num(5), c) /\ LE(c, Num(15)))
              /\ (u = "U3") = (LT(Num(15), c) /\ LE(c, Num(25)))
              /\ (u = "U4") = GT(c, Num(25))

\* a record whose coefficient of variation is exactly 25 has been graded U3
C1_Witness ==
    /\ pc = "done"
    /\ \E k \in 1..Len(COV) : EQ(COV[k].COV_percent, Num(25)) /\ COV[k].U_score = "U3"

B == <<"[drilling]", "[drilling-clustering]", "[mining]", "[tunneling]">>
P == <<"[probing (onshore/lake, river, etc.)]", "[probing (offshore/ocean)]",
       "[probing-clustering]">>

\* Python: x in list
In(x, list) == \E k \in 1..Len(list) : list[k] = x

\* Python: a or b, for strings
OrStr(a, b) == IF a = "" THEN b ELSE a

\* a penalty of k tenths
Pen(k) == Q(k, 10)

\* the outcome of one criterion: the penalties p1..p4 that were set, whether x_present
\* was set, and the text appended to error_string
Hit(k) == [p |-> {Pen(k)}, x |-> FALSE, e |-> ""]
NoHit == [p |-> {}, x |-> FALSE, e |-> ""]
Undet(msg) == [p |-> {}, x |-> TRUE, e |-> msg]

\* min((x for x in [p1, p2, p3, p4] if x is not None), default=0)
least_penalty(p) == IF p = {} THEN Num(0) ELSE CHOOSE a \in p : \A b \in p : LE(a, b)

Pt == <<"P6", "C6", "C23", "C37">>

\* ProbeT_score, lines 252-302: one criterion c of the record r
ProbeT_criterion(c, r) ==
    IF c = "P6" THEN
        IF LT(Abs(r["P6"]), Num(1500)) \/ isnan(r["P6"]) THEN Hit(-2)
        ELSE IF GE(Num(2500), Abs(r["P6"])) /\ GE(Abs(r["P6"]), Num(1500)) THEN Hit(-1)
        ELSE IF GT(Abs(r["P6"]), Num(2500)) \/ Contains("[present and corrected]", r["C17"])
             THEN Hit(0)
        ELSE Undet(" P6,")
    ELSE IF c = "C6" THEN
        IF LT(r["C6"], Num(1)) \/ isnan(r["C6"]) THEN Hit(-2)
        ELSE IF LE(Num(1), r["C6"]) /\ LE(r["C6"], Num(3)) THEN Hit(-1)
        ELSE IF LT(Num(3), r["C6"]) /\ LE(r["C6"], Num(10)) THEN Hit(0)
        ELSE IF GT(r["C6"], Num(10)) THEN Hit(1)
        ELSE Undet(" C6,")
    ELSE IF c = "C23" THEN
        IF GT(r["C23"], Num(30)) \/ isnan(r["C23"]) THEN Hit(-2)
        ELSE IF LT(Num(10), r["C23"]) /\ LE(r["C23"], Num(30)) THEN Hit(-1)
        ELSE IF (LT(Num(0), r["C23"]) /\ LE(r["C23"], Num(10)))
                  \/ Contains("[tilt corrected]", r["C11"])
             THEN Hit(0)
        ELSE Undet(" C23,")
    ELSE IF c = "C37" THEN
        IF LT(r["C37"], Num(1)) \/ isnan(r["C37"]) THEN Hit(-2)
        ELSE IF LE(Num(1), r["C37"]) /\ LE(r["C37"], Num(3)) THEN Hit(-1)
        ELSE IF LT(Num(3), r["C37"]) /\ LE(r["C37"], Num(5)) THEN Hit(0)
        ELSE IF GT(r["C37"], Num(5)) THEN Hit(1)
        ELSE Undet(" C37,")
    ELSE NoHit

\* the loop over the criteria of a list without break: the score after criterion k of
\* outcomes o, starting from 1.0
RECURSIVE ScoreAfter(_, _)
ScoreAfter(o, k) == IF k = 0 THEN Num(1) ELSE Add(ScoreAfter(o, k - 1), least_penalty(o[k].p))

RECURSIVE ErrorAfter(_, _)
ErrorAfter(o, k) == IF k = 0 THEN "" ELSE ErrorAfter(o, k - 1) \o o[k].e

\* ProbeT_row adding the penalty of the first criterion only
ProbeT_row_first(r) ==
    IF In(r["P12"], P)
    THEN LET o == [k \in 1..Len(Pt) |-> ProbeT_criterion(Pt[k], r)]
         IN  [Error_ProbeTG |-> ErrorAfter(o, Len(Pt)),
              X_ProbeTG |-> \E k \in 1..Len(Pt) : o[k].x,
              Probe_Tscore |-> ScoreAfter(o, 1)]
    ELSE [Error_ProbeTG |-> "", X_ProbeTG |-> FALSE, Probe_Tscore |-> NaN]

\* ProbeT_score, lines 245-313: the row written for the record r
ProbeT_row(r) ==
    IF In(r["P12"], P)
    THEN LET o == [k \in 1..Len(Pt) |-> ProbeT_criterion(Pt[k], r)]
         IN  [Error_ProbeTG |-> ErrorAfter(o, Len(Pt)),
              X_ProbeTG |-> \E k \in 1..Len(Pt) : o[k].x,
              Probe_Tscore |-> ScoreAfter(o, Len(Pt))]
    ELSE [Error_ProbeTG |-> "", X_ProbeTG |-> FALSE, Probe_Tscore |-> NaN]

Ptc == <<"C42", "C43", "C45", "C47">>

\* ProbeTC_score, lines 353-411: one criterion c of the record r
ProbeTC_criterion(c, r) ==
    IF c = "C42" THEN
        IF Contains("[literature/unspecified]", r["C42"]) THEN Hit(-2)
        ELSE IF Contains("[other location]", r["C42"]) THEN Hit(-1)
        ELSE IF Contains("[actual heat-flow location]", r["C42"]) THEN Hit(0)
        ELSE Undet("C42, ")
    ELSE IF c = "C43" THEN
        IF StartsWith(r["C43"], "[lab") THEN
            [p |-> (IF r["C44"] \in {"[dry measured]", "[unspecified]", "[other (specify)]"}
                    THEN {Pen(-2)} ELSE {})
                   \cup
                   (IF Contains("[saturated calculated]", r["C44"]) THEN {Pen(-1)}
                    ELSE IF r["C44"] \in {"[saturated measured]", "[recovered]"} THEN {Pen(0)}
                    ELSE {}),
             x |-> FALSE, e |-> ""]
        ELSE IF r["C43"] \in {"[unspecified]", "[estimation - from chlorine content]",
                              "[estimation - from water content/porosity]",
                              "[estimation - from mineral composition]"} THEN Hit(-2)
        ELSE IF Contains("[estimation - from lithology and literature]", r["C43"]) THEN Hit(-1)
        ELSE IF Contains("[probe - pulse technique]", r["C43"]) THEN Hit(1)
        ELSE Undet("C43, ")
    ELSE IF c = "C45" THEN
        IF r["C45"] \in {"[recorded ambient pt conditions]", "[unrecorded ambient pt conditions]",
                         "[unspecified]"} THEN Hit(-2)
        ELSE IF r["C45"] \in {"[replicated in-situ (p)]", "[corrected in-situ (p)]",
                              "[replicated in-situ (t)]", "[corrected in-situ (t)]"} THEN Hit(-1)
        ELSE IF r["C45"] \in {"[replicated in-situ (pt)]", "[corrected in-situ (pt)]"} THEN Hit(0)
        ELSE IF Contains("[actual in-situ (pt) conditions]", r["C45"])
                  /\ Contains("[probe - pulse technique]", r["C43"]) THEN Hit(1)
        ELSE Undet("C45, ")
    ELSE IF c = "C47" THEN
        IF ~Contains("[literature/unspecified]", r["C42"])
              /\ ((LE(Num(0), r["C47"]) /\ LE(r["C47"], Num(1))) \/ isnan(r["C47"])) THEN Hit(-2)
        ELSE IF ~Contains("[literature/unspecified]", r["C42"])
              /\ (LE(Num(2), r["C47"]) /\ LE(r["C47"], Num(3))) THEN Hit(-1)
        ELSE IF ~Contains("[literature/unspecified]", r["C42"]) /\ GT(r["C47"], Num(3)) THEN Hit(0)
        ELSE Undet("C47, ")
    ELSE NoHit

\* ProbeTC_score, lines 342-420: the row written for the record r
ProbeTC_row(r) ==
    IF In(r["P12"], P)
    THEN LET o == [k \in 1..Len(Ptc) |-> ProbeTC_criterion(Ptc[k], r)]
         IN  [Error_ProbeTC |-> ErrorAfter(o, Len(Ptc)),
              X_ProbeTC |-> \E k \in 1..Len(Ptc) : o[k].x,
              Probe_TCscore |-> ScoreAfter(o, Len(Ptc))]
    ELSE [Error_ProbeTC |-> "", X_ProbeTC |-> FALSE, Probe_TCscore |-> NaN]

\* Bore_t_M_score, lines 453-501: the single multi-way branch of the record r
Bore_t_criterion(r) ==
    LET C31 == r["C31"]
        C32 == r["C32"]
        C37 == r["C37"]
        m == OrStr(C31, C32)
    IN  IF C31 = "[sur]" /\ C32 \in {"[cpd]", "[xen]", "[gtm]", "[bsr]", "[bht]", "[dst]",
                                       "[rtdpert]", "[cbht]", "[cdst]", "[rtdeq]", "[rtdc]",
                                       "[oddt-pc]", "[oddt-tp]"} THEN
            IF C32 \in {"[cpd]", "[xen]", "[gtm]", "[bsr]"} THEN Hit(-6)
            ELSE IF C32 \in {"[bht]", "[dst]", "[rtdpert]"} THEN Hit(-5)
            ELSE IF C32 \in {"[cbht]", "[cdst]", "[rtdeq]", "[rtdc]", "[oddt-pc]", "[oddt-tp]"}
                 THEN Hit(-3)
            ELSE Undet("C32")
        ELSE IF GT(C37, Num(15)) /\ m \in {"[logpert]", "[logeq]", "[clog]", "[dtseq]", "[cdts]"} THEN
            IF Contains("[logpert]", m) THEN Hit(-1)
            ELSE IF m \in {"[logeq]", "[clog]", "[dtseq]", "[cdts]"} THEN Hit(1)
            ELSE Undet("C31 or C32")
        ELSE IF (GT(Num(15), C37) /\ GT(C37, Num(2)))
                  /\ m \in {"[cpd]", "[xen]", "[gtm]", "[bsr]", "[logpert]", "[dtspert]", "[bht]",
                             "[dst]", "[rtdpert]", "[blk]", "[logeq]", "[clog]", "[dtseq]",
                             "[cdts]", "[cbht]", "[dst]", "[rtdeq]", "[rtdc]", "[oddt-pc]",
                             "[oddt-tp]"} THEN
            IF m \in {"[cpd]", "[xen]", "[gtm]", "[bsr]"} THEN Hit(-5)
            ELSE IF m \in {"[logpert]", "[dtspert]", "[bht]", "[dst]", "[rtdpert]", "[blk]"}
                 THEN Hit(-3)
            ELSE IF m \in {"[logeq]", "[clog]", "[dtseq]", "[cdts]", "[cbht]", "[dst]", "[rtdeq]",
                           "[rtdc]", "[oddt-pc]", "[oddt-tp]"} THEN Hit(-1)
            ELSE Undet("C31 or C32")
        ELSE Hit(-6)

\* Bore_t_row starting from the score 1.1
Bore_t_row_base11(r) ==
    IF In(r["P12"], B)
    THEN LET o == Bore_t_criterion(r)
         IN  [Error_BoreTG |-> o.e, X_BoreTG |-> o.x,
              Bore_Tscore |-> Add(Q(11, 10), least_penalty(o.p))]
    ELSE [Error_BoreTG |-> "", X_BoreTG |-> FALSE, Bore_Tscore |-> NaN]

\* Bore_t_M_score, lines 447-507: the row written for the record r
Bore_t_row(r) ==
    IF In(r["P12"], B)
    THEN LET o == Bore_t_criterion(r)
         IN  [Error_BoreTG |-> o.e, X_BoreTG |-> o.x,
              Bore_Tscore |-> Add(Num(1), least_penalty(o.p))]
    ELSE [Error_BoreTG |-> "", X_BoreTG |-> FALSE, Bore_Tscore |-> NaN]

Btc == <<"C41", "C42", "C44", "C45", "C47">>

\* Bore_tc_M_score, lines 549 and 554: (C4 or C5) is np.nan.  "a or b" is a unless a is
\* falsy (0.0); "is" holds for the NaN object that an object column stores, and not for
\* the numpy.float64 that a float64 column yields.
C4_or_C5_is_nan(r, objcols) ==
    IF NE(r["C4"], Num(0)) THEN isnan(r["C4"]) /\ "C4" \in objcols
    ELSE isnan(r["C5"]) /\ "C5" \in objcols

\* Bore_tc_M_score, lines 555-618: one criterion c of the record r (after the early exit)
Bore_tc_criterion(c, r) ==
    IF c = "C42" THEN
        IF Contains("[literature/unspecified]", r["C42"]) THEN Hit(-2)
        ELSE IF Contains("[other location]", r["C42"]) THEN Hit(-1)
        ELSE IF Contains("[actual heat-flow location]", r["C42"]) THEN Hit(0)
        ELSE Undet(" C42,")
    ELSE IF c = "C41" THEN
        IF r["C41"] \in {"[mineral computation]", "[assumed from literature]",
                         "[other (specify)]", "[unspecified]"} THEN Hit(-2)
        ELSE IF r["C41"] \in {"[cutting samples]", "[outcrop samples]",
                              "[well-log interpretation]"} THEN Hit(-1)
        ELSE IF Contains("[core samples]", r["C41"]) THEN Hit(0)
        ELSE IF r["C41"] \in {"[in-situ probe]", "[core-log integration]"} THEN Hit(1)
        ELSE Undet(" C41,")
    ELSE IF c = "C47" THEN
        IF Contains("[literature/unspecified]", r["C42"]) THEN Hit(-1)
        ELSE IF ~Contains("[literature/unspecified]", r["C42"])
                  /\ (isnan(r["C47"]) \/ (LE(Num(1), r["C47"]) /\ LE(r["C47"], Num(15))))
             THEN Hit(-1)
        ELSE IF ~Contains("[literature/unspecified]", r["C42"]) /\ GT(r["C47"], Num(15))
             THEN Hit(0)
        ELSE Undet(" C47,")
    ELSE IF c = "C44" THEN
        IF r["C44"] \in {"[dry measured]", "[unspecified]", "[other (specify)]"} THEN Hit(-2)
        ELSE IF r["C44"] \in {"[recovered]", "[saturated calculated]"} THEN Hit(-1)
        ELSE IF r["C44"] \in {"[saturated measured in-situ]", "[saturated measured]"} THEN Hit(0)
        ELSE Undet(" C44,")
    ELSE IF c = "C45" THEN
        IF r["C45"] \in {"[recorded ambient pt conditions]", "[unrecorded ambient pt conditions]",
                         "[unspecified]"} THEN Hit(-2)
        ELSE IF r["C45"] \in {"[replicated in-situ (p)]", "[corrected in-situ (p)]",
                              "[replicated in-situ (t)]", "[corrected in-situ (t)]"} THEN Hit(-1)
        ELSE IF r["C45"] \in {"[actual in-situ (pt) conditions]", "[replicated in-situ (pt)]",
                              "[corrected in-situ (pt)]"} THEN Hit(0)
        ELSE Undet(" C45,")
    ELSE NoHit

\* Bore_tc_M_score, lines 542-620: the loop over Btc from criterion k on, st being the
\* score, flag and error text so far; the early exit at C42 sets the score to 0.1 and
\* leaves the loop
RECURSIVE Bore_tc_loop(_, _, _, _)
Bore_tc_loop(r, objcols, k, st) ==
    IF k > Len(Btc) THEN st
    ELSE IF Btc[k] = "C42" /\ C4_or_C5_is_nan(r, objcols)
         THEN [st EXCEPT !.T_score = Q(1, 10)]
    ELSE LET o == Bore_tc_criterion(Btc[k], r)
         IN  Bore_tc_loop(r, objcols, k + 1,
                          [T_score |-> Add(st.T_score, least_penalty(o.p)),
                           x_present |-> st.x_present \/ o.x,
                           error_string |-> st.error_string \o o.e])

\* Bore_tc_row starting from the score 0.9
Bore_tc_row_base09(r, objcols) ==
    IF In(r["P12"], B)
    THEN LET st == Bore_tc_loop(r, objcols, 1,
                                [T_score |-> Q(9, 10), x_present |-> FALSE, error_string |-> ""])
         IN  [Error_BoreTC |-> st.error_string, X_BoreTC |-> st.x_present,
              Bore_TCscore |-> st.T_score]
    ELSE [Error_BoreTC |-> "", X_BoreTC |-> FALSE, Bore_TCscore |-> NaN]

\* Bore_tc_M_score, lines 535-626: the row written for the record r
Bore_tc_row(r, objcols) ==
    IF In(r["P12"], B)
    THEN LET st == Bore_tc_loop(r, objcols, 1,
                                [T_score |-> Num(1), x_present |-> FALSE, error_string |-> ""])
         IN  [Error_BoreTC |-> st.error_string, X_BoreTC |-> st.x_present,
              Bore_TCscore |-> st.T_score]
    ELSE [Error_BoreTC |-> "", X_BoreTC |-> FALSE, Bore_TCscore |-> NaN]

\* concatenate_TScores, line 648: new_df = change_type(remove_rows(df)).  Each of the
\* Complete_*_calc calls normalises the same table again, with the same result.
concatenate_TScores ==
    /\ pc = "concatenate_TScores"
    /\ df' = prepare(og, df)
    /\ og' = IF og[0]["ID"] \in {"Obligation", "Short Name"} THEN og ELSE df'
    /\ dtype' = IF converted(og, df) THEN dtype ELSE object_columns(og)
    /\ T_score_df' = [i \in DOMAIN df' |-> [c \in {"P12"} |-> df'[i]["P12"]]]
    /\ pc' = "ProbeT_score"
    /\ UNCHANGED <<id, COV, PFlag_df, m_dict, domain, error_df, result, local>>

\* A cell X_* of a record outside the scorer's domain is never set; merge_Tscore reads
\* it only through "|", which takes a missing cell as False.
ProbeT_score ==
    /\ pc = "ProbeT_score"
    /\ T_score_df' = [i \in DOMAIN T_score_df |-> T_score_df[i] @@ ProbeT_row(df[i])]
    /\ pc' = "ProbeTC_score"
    /\ UNCHANGED <<og, df, id, dtype, COV, PFlag_df, m_dict, domain, error_df, result, local>>

ProbeTC_score ==
    /\ pc = "ProbeTC_score"
    /\ T_score_df' = [i \in DOMAIN T_score_df |-> T_score_df[i] @@ ProbeTC_row(df[i])]
    /\ pc' = "Bore_t_M_score"
    /\ UNCHANGED <<og, df, id, dtype, COV, PFlag_df, m_dict, domain, error_df, result, local>>

Bore_t_M_score ==
    /\ pc = "Bore_t_M_score"
    /\ T_score_df' = [i \in DOMAIN T_score_df |-> T_score_df[i] @@ Bore_t_row(df[i])]
    /\ pc' = "Bore_tc_M_score"
    /\ UNCHANGED <<og, df, id, dtype, COV, PFlag_df, m_dict, domain, error_df, result, local>>

Bore_tc_M_score ==
    /\ pc = "Bore_tc_M_score"
    /\ T_score_df' = [i \in DOMAIN T_score_df |-> T_score_df[i] @@ Bore_tc_row(df[i], dtype)]
    /\ pc' = "merge_Tscore"
    /\ UNCHANGED <<og, df, id, dtype, COV, PFlag_df, m_dict, domain, error_df, result, local>>

column_to_remove ==
    {"Probe_Tscore", "Probe_TCscore", "Bore_Tscore", "Bore_TCscore", "Error_ProbeTG",
     "Error_ProbeTC", "Error_BoreTG", "Error_BoreTC", "X_Probe", "X_Bore", "X_ProbeTG",
     "X_ProbeTC", "X_BoreTG", "X_BoreTC"}

\* merge_row taking the flag of the temperature-gradient sub-scorer alone
merge_row_TG(w) ==
    IF In(w["P12"], P)
    THEN [T_score |-> w["Probe_Tscore"], TC_score |-> w["Probe_TCscore"],
          X |-> w["X_ProbeTG"],
          Error |-> w["Error_ProbeTG"] \o w["Error_ProbeTC"]]
    ELSE IF In(w["P12"], B)
    THEN [T_score |-> w["Bore_Tscore"], TC_score |-> w["Bore_TCscore"],
          X |-> w["X_BoreTG"],
          Error |-> w["Error_BoreTG"] \o w["Error_BoreTC"]]
    ELSE [X |-> FALSE, Error |-> ""]

\* merge_Tscore, lines 662-680: the columns T_score, TC_score, X and Error of the row w.
\* T_score and TC_score are created by the first assignment to one of their cells.
merge_row(w) ==
    IF In(w["P12"], P)
    THEN [T_score |-> w["Probe_Tscore"], TC_score |-> w["Probe_TCscore"],
          X |-> (w["X_ProbeTG"] \/ w["X_ProbeTC"]),
          Error |-> w["Error_ProbeTG"] \o w["Error_ProbeTC"]]
    ELSE IF In(w["P12"], B)
    THEN [T_score |-> w["Bore_Tscore"], TC_score |-> w["Bore_TCscore"],
          X |-> (w["X_BoreTG"] \/ w["X_BoreTC"]),
          Error |-> w["Error_BoreTG"] \o w["Error_BoreTC"]]
    ELSE [X |-> FALSE, Error |-> ""]

merge_Tscore ==
    /\ pc = "merge_Tscore"
    /\ LET assigned == \E i \in DOMAIN T_score_df :
                           In(T_score_df[i]["P12"], P) \/ In(T_score_df[i]["P12"], B)
           created == IF assigned THEN [T_score |-> NaN, TC_score |-> NaN] ELSE <<>>
           merged == [i \in DOMAIN T_score_df |->
                         merge_row(T_score_df[i]) @@ created @@ T_score_df[i]]
       IN  T_score_df' = [i \in DOMAIN merged |->
                             [c \in (DOMAIN merged[i]) \ column_to_remove |-> merged[i][c]]]
    /\ pc' = "T_quality"
    /\ UNCHANGED <<og, df, id, dtype, COV, PFlag_df, m_dict, domain, error_df, result, local>>

\* T_Quality as the bare product
T_Quality_product(w) == Mul(w["T_score"], w["TC_score"])

\* T_quality, lines 699-704: the quality product of one row
T_Quality(w) ==
    IF isnan(w["T_score"]) THEN w["TC_score"]
    ELSE IF isnan(w["TC_score"]) THEN w["T_score"]
    ELSE Mul(w["T_score"], w["TC_score"])

\* T_quality; df.loc[id, "T_score"] raises KeyError when the frame has no such column
T_quality ==
    /\ pc = "T_quality"
    /\ IF \A i \in DOMAIN T_score_df : "T_score" \in DOMAIN T_score_df[i]
       THEN /\ T_score_df' = [i \in DOMAIN T_score_df |->
                                 [c \in {"T_Quality"} |-> T_Quality(T_score_df[i])]
                                     @@ T_score_df[i]]
            /\ pc' = "M_score"
       ELSE /\ T_score_df' = [i \in DOMAIN T_score_df |->
                                 [c \in {"T_Quality"} |-> NaN] @@ T_score_df[i]]
            /\ pc' = "KeyError"
    /\ UNCHANGED <<og, df, id, dtype, COV, PFlag_df, m_dict, domain, error_df, result, local>>

\* M_Score with the interval bounds closed above and open below
M_Score_closed_above(w) ==
    LET dfvalue == w["T_Quality"]
        x == isnan(w["TC_score"]) \/ isnan(w["T_score"]) \/ (w["X"] = TRUE)
    IN  IF GE(Q(15, 10), dfvalue) /\ GT(dfvalue, Q(75, 100)) THEN (IF x THEN "M1x" ELSE "M1")
        ELSE IF GE(Q(75, 100), dfvalue) /\ GT(dfvalue, Q(50, 100)) THEN (IF x THEN "M2x" ELSE "M2")
        ELSE IF GE(Q(50, 100), dfvalue) /\ GT(dfvalue, Q(25, 100)) THEN (IF x THEN "M3x" ELSE "M3")
        ELSE IF GE(Q(25, 100), dfvalue) /\ GT(dfvalue, Num(0)) THEN (IF x THEN "M4x" ELSE "M4")
        ELSE "Mx"

\* M_score, lines 720-745: the grade of one row
M_Score(w) ==
    LET dfvalue == w["T_Quality"]
        x == isnan(w["TC_score"]) \/ isnan(w["T_score"]) \/ (w["X"] = TRUE)
    IN  IF GT(Q(15, 10), dfvalue) /\ GE(dfvalue, Q(75, 100)) THEN (IF x THEN "M1x" ELSE "M1")
        ELSE IF GT(Q(75, 100), dfvalue) /\ GE(dfvalue, Q(50, 100)) THEN (IF x THEN "M2x" ELSE "M2")
        ELSE IF GT(Q(50, 100), dfvalue) /\ GE(dfvalue, Q(25, 100)) THEN (IF x THEN "M3x" ELSE "M3")
        ELSE IF GT(Q(25, 100), dfvalue) /\ GE(dfvalue, Num(0)) THEN (IF x THEN "M4x" ELSE "M4")
        ELSE "Mx"

M_score ==
    /\ pc = "M_score"
    /\ T_score_df' = [i \in DOMAIN T_score_df |->
                          [c \in {"M_Score"} |-> M_Score(T_score_df[i])] @@ T_score_df[i]]
    /\ pc' = "done"
    /\ UNCHANGED <<og, df, id, dtype, COV, PFlag_df, m_dict, domain, error_df, result, local>>

\* complete_MScore_calc: M_score(T_quality(merge_Tscore(concatenate_TScores(df))))
complete_MScore_calc ==
    \/ concatenate_TScores
    \/ ProbeT_score
    \/ ProbeTC_score
    \/ Bore_t_M_score
    \/ Bore_tc_M_score
    \/ merge_Tscore
    \/ T_quality
    \/ M_score

(***************************************************************************)
(* T_quality and M_score as functions of a merged frame                    *)
(***************************************************************************)
ScoreVals == {NaN} \cup {Q(k, 20) : k \in (-2)..MaxScore}

InitQ ==
    /\ og = <<>>
    /\ df = <<>>
    /\ id = 0
    /\ dtype = {}
    /\ COV = <<>>
    /\ PFlag_df = <<>>
    /\ m_dict = <<>>
    /\ domain = <<>>
    /\ error_df = <<>>
    /\ result = <<>>
    /\ local = <<>>
    /\ pc = "T_quality"
    /\ \E t \in ScoreVals, tc \in ScoreVals, x \in BOOLEAN :
          T_score_df = <<[T_score |-> t, TC_score |-> tc, X |-> x, Error |-> ""]>>

NextQ == T_quality \/ M_score

SpecQ == InitQ /\ [][NextQ]_vars

\* the rows of the frame that have been graded
Graded == IF pc = "done" THEN DOMAIN T_score_df ELSE {}

\* C3: the QualityProduct q is graded by half-open intervals: 0.75 <= q < 1.5 is M1,
\* 0.5 <= q < 0.75 is M2, 0.25 <= q < 0.5 is M3, 0 <= q < 0.25 is M4 (with or without the
\* suffix x), and every other q (undefined, negative, 1.5 or more) is Mx.
C3_MGradeOfProduct ==
    \A i \in Graded :
        LET q == T_score_df[i]["T_Quality"]
            g == T_score_df[i]["M_Score"]
        IN  /\ g \in {"M1", "M1x", "M2", "M2x", "M3", "M3x", "M4", "M4x", "Mx"}
            /\ (g \in {"M1", "M1x"}) = (LE(Q(3, 4), q) /\ LT(q, Q(3, 2)))
            /\ (g \in {"M2", "M2x"}) = (LE(Q(1, 2), q) /\ LT(q, Q(3, 4)))
            /\ (g \in {"M3", "M3x"}) = (LE(Q(1, 4), q) /\ LT(q, Q(1, 2)))
            /\ (g \in {"M4", "M4x"}) = (LE(Num(0), q) /\ LT(q, Q(1, 4)))
            /\ (g = "Mx") = (isnan(q) \/ LT(q, Num(0)) \/ GE(q, Q(3, 2)))

\* a product of exactly 0.75, made of two defined sub-scores, has been graded M1
C3_Witness ==
    \E i \in Graded :
        /\ EQ(T_score_df[i]["T_Quality"], Q(3, 4))
        /\ ~isnan(T_score_df[i]["T_score"]) /\ ~isnan(T_score_df[i]["TC_score"])
        /\ T_score_df[i]["M_Score"] = "M1"

\* the rows of the frame whose quality product has been computed
WithQuality == IF pc \in {"M_score", "done"} THEN DOMAIN T_score_df ELSE {}

\* C4: the QualityProduct is T_score * TC_score when both are defined, the defined one
\* when exactly one is defined, and undefined when neither is; then the grade is Mx.
C4_QualityProduct ==
    \A i \in WithQuality :
        LET t == T_score_df[i]["T_score"]
            tc == T_score_df[i]["TC_score"]
            q == T_score_df[i]["T_Quality"]
        IN  /\ (~isnan(t) /\ ~isnan(tc)) => EQ(q, Mul(t, tc))
            /\ (~isnan(t) /\ isnan(tc)) => EQ(q, t)
            /\ (isnan(t) /\ ~isnan(tc)) => EQ(q, tc)
            /\ (isnan(t) /\ isnan(tc)) =>
                  /\ isnan(q)
                  /\ pc = "done" => T_score_df[i]["M_Score"] = "Mx"

\* a row whose T_score alone is defined has got that score as its product
C4_Witness ==
    \E i \in Graded :
        /\ ~isnan(T_score_df[i]["T_score"])
        /\ isnan(T_score_df[i]["TC_score"])
        /\ EQ(T_score_df[i]["T_Quality"], T_score_df[i]["T_score"])

(***************************************************************************)
(* complete_MScore_calc on tables of records                               *)
(***************************************************************************)
MCols == {"P12", "P6", "C4", "C5", "C6", "C11", "C17", "C23", "C31", "C32", "C37", "C41",
          "C42", "C43", "C44", "C45", "C47"}

ProbeGood ==
    [EmptyRow(MCols) EXCEPT !["P12"] = "[Probing (offshore/ocean)]", !["P6"] = "3000",
        !["C6"] = "5", !["C23"] = "5", !["C37"] = "6",
        !["C42"] = "[Actual heat-flow location]", !["C43"] = "[Probe - pulse technique]",
        !["C45"] = "[Actual in-situ (pT) conditions]", !["C47"] = "5"]

ProbeMid ==
    [EmptyRow(MCols) EXCEPT !["P12"] = "[probing-clustering]", !["P6"] = "-2000",
        !["C6"] = "2", !["C23"] = "20", !["C37"] = "2",
        !["C42"] = "[Other location]", !["C43"] = "[Estimation - from lithology and literature]",
        !["C45"] = "[Replicated in-situ (p)]", !["C47"] = "2"]

ProbeBad ==
    [EmptyRow(MCols) EXCEPT !["P12"] = "[probing (onshore/lake, river, etc.)]",
        !["C42"] = "[Other location]", !["C43"] = "[unspecified]",
        !["C45"] = "[unspecified]", !["C47"] = "1"]

BoreGood ==
    [EmptyRow(MCols) EXCEPT !["P12"] = "[Drilling]", !["C31"] = "[LOGeq]", !["C37"] = "20",
        !["C4"] = "100", !["C5"] = "200", !["C41"] = "[Core samples]",
        !["C42"] = "[Actual heat-flow location]", !["C44"] = "[Saturated measured]",
        !["C45"] = "[Replicated in-situ (pT)]", !["C47"] = "20"]

BoreMid ==
    [EmptyRow(MCols) EXCEPT !["P12"] = "[mining]", !["C31"] = "[BHT]", !["C37"] = "10",
        !["C4"] = "0", !["C5"] = "200", !["C41"] = "[Cutting samples]",
        !["C42"] = "[Other location]", !["C44"] = "[Recovered]",
        !["C45"] = "[Corrected in-situ (T)]", !["C47"] = "3"]

MRecs ==
    {ProbeGood,
     [ProbeGood EXCEPT !["C23"] = "0"],
     [ProbeGood EXCEPT !["C47"] = "1.5"],
     [ProbeGood EXCEPT !["C23"] = "0", !["C42"] = "nan"],
     ProbeMid,
     ProbeBad,
     BoreGood,
     [BoreGood EXCEPT !["C41"] = "nan"],
     [BoreGood EXCEPT !["C4"] = "nan", !["C5"] = "nan"],
     BoreMid,
     EmptyRow(MCols),
     [ProbeGood EXCEPT !["P12"] = "[unspecified]"],
     [ProbeGood EXCEPT !["C43"] = "[Lab - point source]"],
     [ProbeGood EXCEPT !["C43"] = "[unspecified];[Probe - pulse technique]"],
     [ProbeGood EXCEPT !["C42"] = "[Actual heat-flow location];[Other location]"],
     [ProbeGood EXCEPT !["C43"] = "[Lab - point source]", !["C44"] = "[Saturated measured]"],
     [BoreGood EXCEPT !["P12"] = "[Drilling];[Probing (offshore/ocean)]"]}

InitM ==
    /\ \E form \in Forms, n \in 1..MaxRowsM :
          \E data \in [1..n -> MRecs] : og = Table(form, MCols, data)
    /\ pc = "concatenate_TScores"
    /\ df = <<>>
    /\ id = 0
    /\ dtype = {}
    /\ COV = <<>>
    /\ T_score_df = <<>>
    /\ PFlag_df = <<>>
    /\ m_dict = <<>>
    /\ domain = <<>>
    /\ error_df = <<>>
    /\ result = <<>>
    /\ local = <<>>

NextM == complete_MScore_calc

SpecM == InitM /\ [][NextM]_vars

\* the undetermined flags that the sub-scorers of the record's domain set for record r
FlagSet(r) ==
    \/ /\ In(r["P12"], P)
       /\ \/ \E k \in 1..Len(Pt) : ProbeT_criterion(Pt[k], r).x
          \/ \E k \in 1..Len(Ptc) : ProbeTC_criterion(Ptc[k], r).x
    \/ /\ In(r["P12"], B)
       /\ \/ Bore_t_criterion(r).x
          \/ Bore_tc_row(r, dtype)["X_BoreTC"]

\* C5: a record graded M1..M4 carries the suffix x if and only if its T_score or its
\* TC_score is undefined or a criterion of the sub-scorers of its domain set the
\* undetermined flag; the numeric value of the score plays no part.
C5_SuffixIffUndetermined ==
    \A i \in Graded :
        LET g == T_score_df[i]["M_Score"]
        IN  g # "Mx" =>
              ((g \in {"M1x", "M2x", "M3x", "M4x"}) =
                 (\/ isnan(T_score_df[i]["T_score"])
                  \/ isnan(T_score_df[i]["TC_score"])
                  \/ FlagSet(df[i])))

\* a probe record flagged by the conductivity sub-scorer alone has been graded M1x
C5_Witness ==
    \E i \in Graded :
        /\ In(df[i]["P12"], P)
        /\ \E k \in 1..Len(Ptc) : ProbeTC_criterion(Ptc[k], df[i]).x
        /\ \A k \in 1..Len(Pt) : ~ProbeT_criterion(Pt[k], df[i]).x
        /\ T_score_df[i]["M_Score"] = "M1x"

\* C6: a record whose P12 is neither a probe-sensing nor a borehole/mine value of the
\* scorer gets undefined sub-scores, an undefined QualityProduct and the grade Mx,
\* whatever the other records of the table.
C6_IndeterminateIsMx ==
    pc \in {"done", "KeyError"} =>
        \A i \in DOMAIN df :
            (~In(df[i]["P12"], P) /\ ~In(df[i]["P12"], B)) =>
                /\ {"T_score", "TC_score", "T_Quality", "M_Score"} \subseteq DOMAIN T_score_df[i]
                /\ isnan(T_score_df[i]["T_score"])
                /\ isnan(T_score_df[i]["TC_score"])
                /\ isnan(T_score_df[i]["T_Quality"])
                /\ T_score_df[i]["M_Score"] = "Mx"

(***************************************************************************)
(* 8. P flag                                                               *)
(***************************************************************************)
\* p_flag, line 769: the local list StrC
PFields == <<"C13", "C14", "C15", "C16", "C17", "C18", "C19">>

\* p_flag, lines 776-859: the letter pair of the branch of each field
PLetter ==
    [C13 |-> <<"S", "s">>, C14 |-> <<"E", "e">>, C15 |-> <<"T", "t">>, C16 |-> <<"P", "p">>,
     C17 |-> <<"V", "v">>, C18 |-> <<"C", "c">>, C19 |-> <<"R", "r">>]

\* p_flag_branch testing the rules in the reverse order
p_flag_branch_reversed(c, cell) ==
    IF Contains("[not recognised]", cell) \/ Contains("[not recognized]", cell) THEN "x"
    ELSE IF Contains("[present not significant]", cell) THEN "X"
    ELSE IF Contains("[present and not corrected]", cell) THEN PLetter[c][2]
    ELSE IF Contains("[present and corrected]", cell) THEN PLetter[c][1]
    ELSE "-"

\* p_flag, lines 777-859: the character that the branch of field c appends for a cell
p_flag_branch(c, cell) ==
    IF Contains("[present and corrected]", cell) THEN PLetter[c][1]
    ELSE IF Contains("[present and not corrected]", cell) THEN PLetter[c][2]
    ELSE IF Contains("[present not significant]", cell) THEN "X"
    ELSE IF Contains("[not recognised]", cell) \/ Contains("[not recognized]", cell) THEN "x"
    ELSE "-"

\* p_flag_loop putting the character of each field in front of the code
RECURSIVE p_flag_loop_prepend(_, _, _)
p_flag_loop_prepend(r, k, Pflag) ==
    IF k > Len(PFields) THEN Pflag
    ELSE p_flag_loop_prepend(r, k + 1, p_flag_branch(PFields[k], r[PFields[k]]) \o Pflag)

\* p_flag, lines 774-859: the loop over the fields from the k-th on, for the record r
RECURSIVE p_flag_loop(_, _, _)
p_flag_loop(r, k, Pflag) ==
    IF k > Len(PFields) THEN Pflag
    ELSE p_flag_loop(r, k + 1, Pflag \o p_flag_branch(PFields[k], r[PFields[k]]))

\* complete_PFlag_calc, line 871: remove_rows and change_type before p_flag
complete_PFlag_calc ==
    /\ pc = "complete_PFlag_calc"
    /\ df' = prepare(og, df)
    /\ og' = IF og[0]["ID"] \in {"Obligation", "Short Name"} THEN og ELSE df'
    /\ pc' = "p_flag"
    /\ UNCHANGED <<id, dtype, COV, T_score_df, PFlag_df, m_dict, domain, error_df, result, local>>

\* p_flag: one row of PFlag_df for every label of df
p_flag ==
    /\ pc = "p_flag"
    /\ PFlag_df' = [i \in DOMAIN df |-> [P_Flag |-> p_flag_loop(df[i], 1, "")]]
    /\ pc' = "done"
    /\ UNCHANGED <<og, df, id, dtype, COV, T_score_df, m_dict, domain, error_df, result, local>>

\* the cells drawn for C13..C19, as they are written in a file
PCells ==
    {"[Present and corrected]", "[PRESENT AND NOT CORRECTED]", "[Present not significant]",
     "[not recognised]", "[Not Recognized]", "[unspecified]", "nan",
     "[not recognized];[Present and corrected]",
     "[Present not significant];[present and not corrected]",
     "present and corrected"}

PCols == Range(PFields)

\* records that differ from a uniform record in one field
PRecs ==
    {[c \in {"ID"} \cup PCols |-> IF c = "ID" THEN "nan" ELSE IF c = f THEN v ELSE base] :
        f \in PCols, v \in PCells, base \in {"nan", "[Present and not corrected]"}}

InitP ==
    /\ \E form \in Forms, n \in 1..MaxRowsP :
          \E data \in [1..n -> PRecs] : og = Table(form, PCols, data)
    /\ pc = "complete_PFlag_calc"
    /\ df = <<>>
    /\ id = 0
    /\ dtype = {}
    /\ COV = <<>>
    /\ T_score_df = <<>>
    /\ PFlag_df = <<>>
    /\ m_dict = <<>>
    /\ domain = <<>>
    /\ error_df = <<>>
    /\ result = <<>>
    /\ local = <<>>

NextP == complete_PFlag_calc \/ p_flag

SpecP == InitP /\ [][NextP]_vars

\* the records of og that PFlag_df was computed from, by label of PFlag_df
RawRec(i) == remove_rows(og)[i]

\* the character that the precedence of phrases gives for a cell of the file
FlagOfPhrase(cell, upper, lower) ==
    LET v == Lower(cell) IN
    CASE Contains("[present and corrected]", v) -> upper
      [] ~Contains("[present and corrected]", v)
           /\ Contains("[present and not corrected]", v) -> lower
      [] ~Contains("[present and corrected]", v)
           /\ ~Contains("[present and not corrected]", v)
           /\ Contains("[present not significant]", v) -> "X"
      [] ~Contains("[present and corrected]", v)
           /\ ~Contains("[present and not corrected]", v)
           /\ ~Contains("[present not significant]", v)
           /\ (Contains("[not recognised]", v) \/ Contains("[not recognized]", v)) -> "x"
      [] OTHER -> "-"

PFlagged == IF pc = "done" /\ PFlag_df # <<>> THEN DOMAIN PFlag_df ELSE {}

\* C7: each of the fields C13..C19 (letters S, E, T, P, V, C, R) is encoded, whatever the
\* letter case of the cell, by the first rule that matches in this order: present and
\* corrected gives the uppercase letter, present and not corrected the lowercase letter,
\* present not significant 'X', not recognised/recognized 'x', anything else '-'.
C7_PFlagPrecedence ==
    \A i \in PFlagged :
        LET code == PFlag_df[i]["P_Flag"]
            r == RawRec(i)
        IN  /\ Len(code) = 7
            /\ SubSeq(code, 1, 1) = FlagOfPhrase(r["C13"], "S", "s")
            /\ SubSeq(code, 2, 2) = FlagOfPhrase(r["C14"], "E", "e")
            /\ SubSeq(code, 3, 3) = FlagOfPhrase(r["C15"], "T", "t")
            /\ SubSeq(code, 4, 4) = FlagOfPhrase(r["C16"], "P", "p")
            /\ SubSeq(code, 5, 5) = FlagOfPhrase(r["C17"], "V", "v")
            /\ SubSeq(code, 6, 6) = FlagOfPhrase(r["C18"], "C", "c")
            /\ SubSeq(code, 7, 7) = FlagOfPhrase(r["C19"], "R", "r")

\* a multi-valued cell in upper and lower case whose later value decides, and a missing cell
C7_Witness ==
    \E i \in PFlagged :
        /\ RawRec(i)["C13"] = "[not recognized];[Present and corrected]"
        /\ RawRec(i)["C14"] = "nan"
        /\ SubSeq(PFlag_df[i]["P_Flag"], 1, 2) = "S-"

\* the characters that can stand at each position of the code
FlagAlphabet ==
    <<{"S", "s", "X", "x", "-"}, {"E", "e", "X", "x", "-"}, {"T", "t", "X", "x", "-"},
      {"P", "p", "X", "x", "-"}, {"V", "v", "X", "x", "-"}, {"C", "c", "X", "x", "-"},
      {"R", "r", "X", "x", "-"}>>

\* the code that complete_PFlag_calc gives to the record r of a file
CodeOf(r) == p_flag_loop(change_type(<<r>>)[1], 1, "")

\* the characters found at position k of the codes of all the records whose k-th field,
\* in lower case, is the cell v
CharsAt ==
    [k \in 1..7 |->
        [v \in {Lower(r[PFields[k]]) : r \in PRecs} |->
            {Char(CodeOf(r), k) : r \in {q \in PRecs : Lower(q[PFields[k]]) = v}}]]

\* C8: every record gets a code of exactly 7 characters, one per field in the order
\* C13, C14, C15, C16, C17, C18, C19; the character at position k is the same for all
\* records that agree on the k-th field, and every record of the table gets a code.
C8_SevenCharsFixedOrder ==
    pc = "done" =>
        /\ DOMAIN PFlag_df = DOMAIN df
        /\ \A i \in DOMAIN df :
              LET code == PFlag_df[i]["P_Flag"] IN
              /\ Len(code) = 7
              /\ \A k \in 1..7 :
                    /\ Char(code, k) \in FlagAlphabet[k]
                    /\ CharsAt[k][df[i][PFields[k]]] = {Char(code, k)}

\* a record with an unmapped value and missing values has got the code of seven dashes
C8_Witness ==
    \E i \in PFlagged :
        /\ RawRec(i)["C13"] = "[unspecified]"
        /\ RawRec(i)["C14"] = "nan"
        /\ PFlag_df[i]["P_Flag"] = "-------"

(***************************************************************************)
(* Vocabulary_check.py                                                     *)
(***************************************************************************)
\* num_data, lines 92-96: the permissible range of every column of VC_NumC, in its order
num_data ==
    [Min |-> <<Q(-9999999, 10), Num(0), Num(-90), Num(-180), Num(-12000), Num(-12000),
               Num(-12000), Q(-9999999, 10), Num(0), Num(0), Num(0), Num(0), Num(0),
               Q(-27315, 100), Q(-9999999, 100), Q(-9999999, 100), Q(-9999999, 100),
               Q(-9999999, 100), Num(0), Num(0), Num(0), Num(0), Num(0), Num(0)>>,
     Max |-> <<Q(9999999, 10), Q(9999999, 10), Num(90), Num(180), Num(9000), Num(9000),
               Num(9000), Q(9999999, 10), Q(199999, 10), Q(199999, 10), Q(9999, 10),
               Q(9999, 100), Q(9999, 100), Q(99999, 100), Q(9999999, 100), Q(9999999, 100),
               Q(9999999, 100), Q(9999999, 100), Num(99999), Num(99999), Num(999999),
               Q(9999, 100), Q(9999, 100), Num(9999)>>]

\* tndf.loc[which, c]
tndf(which, c) == num_data[which][CHOOSE k \in 1..Len(VC_NumC) : VC_NumC[k] = c]

\* lines 122-124 in the lower case of lines 631-633
VC_B == <<"[drilling]", "[drilling-clustering]", "[mining]", "[tunneling]", "[gtm]",
          "[indirect (gtm-bsr-cpd-etc.)]">>
VC_P == <<"[probing (onshore-lake-river-etc.)]", "[probing (offshore-ocean)]",
          "[probing-clustering]">>
VC_U == <<"[other (specify in comments)]", "[unspecified]", "nan", "">>

check_list1 == <<"[sur]", "[clog]", "[cdts]", "[cbht]", "[crtd]", "[cht-ft]">>
check_list2 == <<"[clog]", "[cdts]", "[cbht]", "[crtd]", "[cht-ft]">>

\* Python: any(value in list for value in values)
AnyIn(values, list) == \E k \in 1..Len(values) : In(values[k], list)

\* Vocabulary_check.change_type: every column to str; the cells of a table are held as
\* their str() already
VC_change_type(t) == t

\* toLower: the columns of tsdf, which are those of VC_StrC, to lower case
toLower(t) ==
    [i \in DOMAIN t |->
        [c \in DOMAIN t[i] |-> IF c \in Range(VC_StrC) THEN Lower(t[i][c]) ELSE t[i][c]]]

\* safe_float_conversion: ok = FALSE stands for the result None
safe_float_conversion(r0) ==
    LET r == Strip(r0) IN
    IF r = "0" THEN [ok |-> TRUE, f |-> Num(0)]
    ELSE IF Char(r, 1) = "-"
         THEN LET v == PyFloat(Tail(r)) IN
              IF v.ok THEN [ok |-> TRUE, f |-> Neg(v.f)] ELSE [ok |-> FALSE, f |-> NaN]
         ELSE PyFloat(r)

\* vocabcheck, lines 807-816: the message of column A for the cell P12
P12_error(cell) ==
    LET P12_split == Split(cell, ";") IN
    IF AnyIn(P12_split, <<"[other (specify in comments)]", "[unspecified]">>)
    THEN " P12:Quality Check is not possible!,"
    ELSE IF \E k \in 1..Len(P12_split) : P12_split[k] = "nan"
    THEN " P12:Mandatory entry is empty; Quality Check is not possible!,"
    ELSE IF AnyIn(P12_split, VC_P) /\ AnyIn(P12_split, VC_B)
    THEN " P12:Quality Check is not possible!,"
    ELSE ""

\* vocabcheck, lines 830-836: the domain value P12 of a record
P12_of(cell) ==
    LET P12_split == Split(cell, ";") IN
    IF AnyIn(P12_split, VC_U) THEN ""
    ELSE IF AnyIn(P12_split, VC_P) /\ AnyIn(P12_split, VC_B) THEN ""
    ELSE P12_split[1]

\* lines 849-851 and 864-866: C31 or C32 names a correction method
C31_or_C32_corrected(row) ==
    \/ AnyIn(Split(row["C31"], ";"), check_list1)
    \/ AnyIn(Split(row["C32"], ";"), check_list2)

\* vocabcheck, lines 859-896: the error string after a sub-value that is NaN; error_string
\* is the value the variable had before
NumC_nan(c, row, error_string) ==
    LET P12 == P12_of(row["P12"])
        Mand == " " \o c \o ":Mandatory entry is empty!,"
    IN  IF m_dict[c] = "M" /\ row[c] = "nan"
        THEN IF c = "C27"
             THEN IF row["C29"] = "nan" THEN Mand
                  ELSE IF C31_or_C32_corrected(row) THEN Mand
                  ELSE Mand \o " C31:or C32 should be corrected!,"
             ELSE IF Contains("B", domain[c]) /\ In(P12, VC_B) THEN Mand
             ELSE IF Contains("S", domain[c]) /\ In(P12, VC_P)
                  THEN (IF c = "C4" /\ row["P6"] # "nan" THEN "" ELSE Mand)
             ELSE IF Contains("B", domain[c]) /\ In(P12, VC_U) THEN Mand
             ELSE ""
        ELSE IF m_dict[c] = "M"
             THEN (IF In(P12, VC_B) \/ In(P12, VC_P) THEN "" ELSE error_string)
             ELSE ""

\* vocabcheck, lines 842-902: the error string after the sub-value dfvalue of column c
NumC_subvalue(c, dfvalue, row, error_string) ==
    LET r == Strip(dfvalue)
        float_r == PyFloat(r)
        min_value == tndf("Min", c)
        max_value == tndf("Max", c)
    IN  IF ~float_r.ok THEN " " \o c \o ":invalid format,"
        ELSE IF NE(float_r.f, Num(0)) \/ r = "0"
        THEN LET v == safe_float_conversion(r) IN
             IF ~v.ok THEN "TypeError"
             ELSE IF LE(min_value, v.f) /\ LE(v.f, max_value)
             THEN (IF c = "C29" /\ row["C27"] # "nan"
                   THEN (IF C31_or_C32_corrected(row) THEN ""
                         ELSE " C31:or C32 should be corrected!,")
                   ELSE "")
             ELSE IF isnan(v.f) THEN NumC_nan(c, row, error_string)
             ELSE " " \o c \o ":range violated,"
        ELSE " " \o c \o ":range violated,"

\* lines 839-904: the loop over the sub-values of a cell from the k-th on; every
\* iteration assigns error_df.loc[id, c]
RECURSIVE NumC_subvalues(_, _, _, _, _)
NumC_subvalues(c, values, k, row, error_string) ==
    IF k > Len(values) THEN error_string
    ELSE NumC_subvalues(c, values, k + 1, row, NumC_subvalue(c, values[k], row, error_string))

\* lines 825-911: the loop over the records from label i on, for column c: label -> cell
\* of error_df
RECURSIVE NumC_rows(_, _, _)
NumC_rows(c, i, error_string) ==
    IF i > MaxLabel(df) THEN <<>>
    ELSE LET e == NumC_subvalues(c, Split(df[i][c], ";"), 1, df[i], error_string)
         IN  (i :> e) @@ NumC_rows(c, i + 1, e)

\* the columns of VC_NumC that the table carries, in the order of VC_NumC
NumC_present == SelectSeq(VC_NumC, LAMBDA c : c \in DOMAIN df[MinLabel(df)])

\* lines 821-911: the loop over the columns from the k-th on: column -> label -> cell
RECURSIVE NumC_columns(_, _)
NumC_columns(k, error_string) ==
    IF k > Len(NumC_present) THEN <<>>
    ELSE LET col == NumC_rows(NumC_present[k], MinLabel(df), error_string)
         IN  (NumC_present[k] :> col) @@ NumC_columns(k + 1, col[MaxLabel(df)])

\* Complete_check, lines 1126-1127: obligation(df), then toLower(change_type(remove_rows(df)));
\* obligation reads the labels 0 and 1 of the file
Complete_check ==
    /\ pc = "Complete_check"
    /\ IF 1 \in DOMAIN og
       THEN /\ m_dict' = og[0]
            /\ domain' = og[1]
            /\ df' = toLower(VC_change_type(remove_rows(og)))
            /\ og' = IF og[0]["ID"] \in {"Obligation", "Short Name"} THEN og ELSE df'
            /\ pc' = "vocabcheck_A"
       ELSE /\ pc' = "KeyError"
            /\ UNCHANGED <<og, df, m_dict, domain>>
    /\ UNCHANGED <<id, dtype, COV, T_score_df, PFlag_df, error_df, result, local>>

\* vocabcheck, lines 803-818: column A of error_df
vocabcheck_A ==
    /\ pc = "vocabcheck_A"
    /\ error_df' = [i \in DOMAIN df |-> [c \in {"A"} |-> P12_error(df[i]["P12"])]]
    /\ pc' = "vocabcheck_NumC"
    /\ UNCHANGED <<og, df, id, dtype, COV, T_score_df, PFlag_df, m_dict, domain, result, local>>

\* vocabcheck, lines 821-911: the numeric columns of error_df; error_string enters the
\* loop with the value the loop of column A left.
vocabcheck_NumC ==
    /\ pc = "vocabcheck_NumC"
    /\ LET cols == NumC_columns(1, error_df[MaxLabel(df)]["A"])
       IN  error_df' = [i \in DOMAIN df |->
                           [c \in {"A"} \cup Range(NumC_present) |->
                               IF c = "A" THEN error_df[i]["A"] ELSE cols[c][i]]]
    /\ pc' = "vocabcheck_StrC"
    /\ UNCHANGED <<og, df, id, dtype, COV, T_score_df, PFlag_df, m_dict, domain, result, local>>

\* tsdf, lines 125-146 and 641-673: the controlled vocabulary, in lower case, of the
\* categorical columns that the tables carry
tsdf ==
    [P7 |->
        <<"[onshore (continental)]", "[onshore (lake-river-etc.)]", "[offshore (continental)]",
          "[offshore (marine)]", "[other (specify in comments)]", "[unspecified]">>,
     P12 |->
        <<"[drilling]", "[mining]", "[tunneling]", "[gtm]", "[indirect (gtm-bsr-cpd-etc.)]",
          "[probing (onshore-lake-river-etc.)]", "[probing (offshore-ocean)]",
          "[drilling-clustering]", "[probing-clustering]", "[other (specify in comments)]",
          "[unspecified]">>,
     C31 |->
        <<"[logeq]", "[logpert]", "[clog]", "[dtseq]", "[dtspert]", "[cdts]", "[bht]",
          "[cbht]", "[ht-ft]", "[cht-ft]", "[rtdeq]", "[rtdpert]", "[crtd]", "[cpd]", "[xen]",
          "[gtm]", "[bsr]", "[blk]", "[odtt-pc]", "[odtt-tp]", "[sur]", "[grt]", "[egrt]",
          "[unspecified]", "[other (specify in comments)]">>,
     C32 |->
        <<"[logeq]", "[logpert]", "[clog]", "[dtseq]", "[dtspert]", "[cdts]", "[bht]",
          "[cbht]", "[ht-ft]", "[cht-ft]", "[rtdeq]", "[rtdpert]", "[crtd]", "[cpd]", "[xen]",
          "[gtm]", "[bsr]", "[blk]", "[odtt-pc]", "[odtt-tp]", "[grt]", "[egrt]",
          "[unspecified]", "[other (specify in comments)]">>,
     C43 |->
        <<"[lab - point source]", "[lab - line source - full space]",
          "[lab - line source - half space]", "[lab - plane source - full space]",
          "[lab - plane source - half space]", "[lab - other (specify in comments)]",
          "[probe - pulse technique]", "[well-log - deterministic approach]",
          "[well-log - empirical equation]", "[estimation - from chlorine content]",
          "[estimation - from water content-porosity]",
          "[estimation - from lithology and literature]",
          "[estimation - from mineral composition]", "[unspecified]">>,
     C45 |->
        <<"[unrecorded ambient pt conditions]", "[recorded ambient pt conditions]",
          "[actual in-situ (pt) conditions]", "[replicated in-situ (p)]",
          "[replicated in-situ (t)]", "[replicated in-situ (pt)]", "[corrected in-situ (p)]",
          "[corrected in-situ (t)]", "[corrected in-situ (pt)]", "[unspecified]">>,
     C46 |->
        <<"[t - birch & clark (1940)]", "[t - tikhomirov (1968)]",
          "[t - kutas & gordienko (1971)]", "[t - anand et al. (1973)]",
          "[t - haenel & zoth (1973)]", "[t - blesch et al. (1983)]", "[t - sekiguchi (1984)]",
          "[t - chapman et al. (1984)]", "[t - zoth & haenel (1988)]", "[t - somerton (1992)]",
          "[t - sass et al. (1992)]", "[t - funnell et al. (1996)]",
          "[t - kukkonen et al. (1999)]", "[t - seipold (2001)]",
          "[t - vosteen & schellschmidt (2003)]", "[t - sun et al. (2017)]",
          "[t - miranda et al. (2018)]", "[t - ratcliffe (1960)]", "[p - bridgman (1924)]",
          "[p - sibbitt (1975)]", "[p - kukkonen et al. (1999)]", "[p - seipold (2001)]",
          "[p - durutürk et al. (2002)]", "[p - demirci et al. (2004)]",
          "[p - görgülü et al. (2008)]", "[p - fuchs & förster (2014)]",
          "[pt - ratcliffe (1960)]", "[pt - buntebarth (1991)]",
          "[pt - chapman & furlong (1992)]", "[pt - emirov et al. (1997)]",
          "[pt - abdulagatov et al. (2006)]", "[pt - emirov & ramazanova (2007)]",
          "[pt - abdulagatova et al. (2009)]", "[pt - ramazanova & emirov (2010)]",
          "[pt - ramazanova & emirov (2012)]", "[pt - emirov et al. (2017)]",
          "[pt - hyndman et al. (1974)]", "[pt - langseth (1965)]",
          "[site-specific experimental relationships]", "[other (specify in comments)]",
          "[unspecified]">>,
     C48 |->
        <<"[random or periodic depth sampling]", "[characterize formation conductivities]",
          "[well log interpretation]", "[computation from probe sensing]",
          "[other (specify in comments)]", "[unspecified]">>]

check_list3 ==
    <<"[unrecorded ambient pt conditions]", "[recorded ambient pt conditions]",
      "[actual in-situ (pt) conditions]", "[replicated in-situ (p)]",
      "[replicated in-situ (t)]", "[replicated in-situ (pt)]", "[unspecified]">>

\* vocabcheck, lines 963-984: the error string of a sub-value of C45
C45_subvalue(dfvalue, row) ==
    LET C46 == row["C46"] IN
    IF In(dfvalue, check_list3) THEN ""
    ELSE IF In(C46, <<"[unspecified]", "[site-specific experimental relationships]",
                      "[other (specify in comments)]">>) THEN ""
    ELSE IF dfvalue = "[corrected in-situ (p)]" /\ StartsWith(C46, "[p -") THEN ""
    ELSE IF dfvalue = "[corrected in-situ (t)]" /\ StartsWith(C46, "[t -") THEN ""
    ELSE IF dfvalue = "[corrected in-situ (pt)]"
         THEN (IF Contains("[pt -", C46) THEN ""
               ELSE IF Contains("[p -", C46) /\ Contains("[t -", C46) THEN ""
               ELSE " C46:Please check TC p-T function!,")
    ELSE IF ~In(dfvalue, <<"nan", "[unspecified]">>) /\ C46 = "nan" THEN ""
    ELSE IF In(dfvalue, <<"nan", "[unspecified]">>) /\ C46 # "nan"
         THEN " C45:TC p-T conditions is missing!,"
    ELSE " C46:Please check TC p-T function!,"

\* vocabcheck, lines 989-1008: the error string of a sub-value 'nan' of column c; the test
\* of line 991 is false for every cell, a cell being a string
StrC_nan(c, row) ==
    LET P12 == P12_of(row["P12"])
        Mand == " " \o c \o ":Mandatory entry is empty!,"
    IN  IF m_dict[c] = "M"
        THEN IF c = "C46"
             THEN (IF Contains("corrected", row["C45"]) \/ Contains("unspecified", row["C45"])
                   THEN Mand ELSE "")
             ELSE IF Contains("B", domain[c]) /\ In(P12, VC_B) THEN Mand
             ELSE IF Contains("S", domain[c]) /\ In(P12, VC_P) THEN Mand
             ELSE IF Contains("B", domain[c]) /\ In(P12, VC_U) THEN Mand
             ELSE ""
        ELSE ""

\* vocabcheck, lines 934-1010: the error string of the sub-value dfvalue0 of column c
StrC_subvalue(c, dfvalue0, row) ==
    LET dfvalue == Strip(dfvalue0) IN
    IF c = "C43" /\ Contains("[egrt]", OrStr(row["C31"], row["C32"]))
    THEN (IF dfvalue = "[probe - pulse technique]" THEN ""
          ELSE " " \o c \o ":Please check TC method!,")
    ELSE IF c = "C45" THEN C45_subvalue(dfvalue, row)
    ELSE IF In(dfvalue, tsdf[c]) THEN ""
    ELSE IF dfvalue = "nan" THEN StrC_nan(c, row)
    ELSE " " \o c \o ":vocabulary warning,"

\* lines 931-1012: the loop over the sub-values of a cell from the k-th on; every
\* iteration assigns error_df.loc[id, c]
RECURSIVE StrC_subvalues(_, _, _, _, _)
StrC_subvalues(c, values, k, row, error_string) ==
    IF k > Len(values) THEN error_string
    ELSE StrC_subvalues(c, values, k + 1, row, StrC_subvalue(c, values[k], row))

\* the columns of VC_StrC that the table carries, in the order of VC_StrC
StrC_present == SelectSeq(VC_StrC, LAMBDA c : c \in DOMAIN df[MinLabel(df)])

\* vocabcheck, lines 913-1019: the categorical columns of error_df
vocabcheck_StrC ==
    /\ pc = "vocabcheck_StrC"
    /\ error_df' = [i \in DOMAIN df |->
                       [c \in DOMAIN error_df[i] \cup Range(StrC_present) |->
                           IF c \in DOMAIN error_df[i] THEN error_df[i][c]
                           ELSE StrC_subvalues(c, Split(df[i][c], ";"), 1, df[i], "")]]
    /\ pc' = "vocabcheck_C38"
    /\ UNCHANGED <<og, df, id, dtype, COV, T_score_df, PFlag_df, m_dict, domain, result, local>>


\* Python: int(s) for a string s; ok = FALSE stands for ValueError
PyInt(s) ==
    LET t == Strip(s)
        signed == Len(t) > 0 /\ Char(t, 1) \in {"-", "+"}
        body == IF signed THEN Tail(t) ELSE t
    IN  IF Len(body) > 0 /\ AllDigits(body)
        THEN [ok |-> TRUE, v |-> IF signed /\ Char(t, 1) = "-" THEN -DecVal(body, 0) ELSE DecVal(body, 0)]
        ELSE [ok |-> FALSE, v |-> 0]

\* Python: s[:n] and s[-n:]
Prefix(s, n) == SubSeq(s, 1, IF Len(s) < n THEN Len(s) ELSE n)
Suffix(s, n) == SubSeq(s, IF Len(s) < n THEN 1 ELSE Len(s) - n + 1, Len(s))

\* datetime(year, 1, 1): ok = FALSE stands for ValueError (year outside 1..9999)
datetime_jan1(year) ==
    IF 1 <= year /\ year <= 9999 THEN [ok |-> TRUE, year |-> year, month |-> 1]
    ELSE [ok |-> FALSE, year |-> 0, month |-> 0]

\* datetime.strptime(s, '%Y-%m'): four digits, '-', and a month 1..12 of one or two digits
strptime_Ym(s) ==
    LET Y == Prefix(s, 4)
        m == SubSeq(s, 6, Len(s))
    IN  IF /\ Len(s) \in {6, 7}
           /\ AllDigits(Y)
           /\ Char(s, 5) = "-"
           /\ AllDigits(m)
           /\ DecVal(m, 0) \in 1..12
           /\ DecVal(Y, 0) >= 1
        THEN [ok |-> TRUE, year |-> DecVal(Y, 0), month |-> DecVal(m, 0)]
        ELSE [ok |-> FALSE, year |-> 0, month |-> 0]

\* vocabcheck, lines 1055-1069: the error string of a present date
C38_date(dfvalue) ==
    LET input_date ==
            IF Suffix(dfvalue, 2) = "99"
            THEN (IF PyInt(Prefix(dfvalue, 4)).ok
                  THEN datetime_jan1(PyInt(Prefix(dfvalue, 4)).v)
                  ELSE [ok |-> FALSE, year |-> 0, month |-> 0])
            ELSE strptime_Ym(dfvalue)
    IN  IF ~input_date.ok THEN " C38:invalid format,"
        ELSE IF input_date.month = 1 /\ input_date.year >= 1900 THEN ""
        ELSE IF input_date.year >= 1900 THEN ""
        ELSE " C38:range violated"

\* vocabcheck, lines 1041-1069: the error string of the sub-value dfvalue0 of C38; c is the
\* value the loop over StrC left in its variable
C38_subvalue(dfvalue0, row, c) ==
    LET dfvalue == Strip(dfvalue0)
        P12 == P12_of(row["P12"])
    IN  IF dfvalue = "[unspecified]" THEN ""
        ELSE IF row["C38"] = "nan"
        THEN IF Contains("B", domain[c]) /\ In(P12, VC_B) THEN " C38:Mandatory entry is empty!,"
             ELSE IF Contains("S", domain[c]) /\ In(P12, VC_P) THEN " C38:Mandatory entry is empty!,"
             ELSE IF Contains("B", domain[c]) /\ In(P12, VC_U)
                  THEN " " \o c \o ":Mandatory entry is empty!,"
             ELSE ""
        ELSE C38_date(dfvalue)

\* lines 1038-1073: the loop over the sub-values of the cell from the k-th on
RECURSIVE C38_subvalues(_, _, _, _, _)
C38_subvalues(values, k, row, c, error_string) ==
    IF k > Len(values) THEN error_string
    ELSE C38_subvalues(values, k + 1, row, c, C38_subvalue(values[k], row, c))

\* the columns of error_df in the order they were created
error_columns == <<"A">> \o NumC_present \o StrC_present \o <<"C38">>

\* line 1081: ''.join(x) over the columns of a row of error_df, from the k-th on
RECURSIVE join(_, _)
join(x, k) == IF k > Len(error_columns) THEN "" ELSE x[error_columns[k]] \o join(x, k + 1)

\* vocabcheck, lines 1021-1086: the column C38 of error_df, and the frame error_msg of
\* the joined strings
vocabcheck_C38 ==
    /\ pc = "vocabcheck_C38"
    /\ LET c == StrC_present[Len(StrC_present)]
           e == [i \in DOMAIN df |->
                    [k \in {"C38"} |->
                        C38_subvalues(Split(Lower(df[i]["C38"]), ";"), 1, df[i], c, "")]
                    @@ error_df[i]]
       IN  /\ error_df' = e
           /\ result' = [i \in DOMAIN df |-> [Error |-> join(e[i], 1)]]
    /\ pc' = "reorder_errors"
    /\ UNCHANGED <<og, df, id, dtype, COV, T_score_df, PFlag_df, m_dict, domain, local>>

\* Python: re.split(r',\s*', s): the pieces between the commas, the white space that
\* follows a comma removed
re_split(s) ==
    LET parts == Split(s, ",")
    IN  [k \in 1..Len(parts) |-> IF k = 1 THEN parts[k] ELSE LStrip(parts[k])]

\* Python: x.index(':'), 0-based; the length of x stands for ValueError
RECURSIVE index_colon(_, _)
index_colon(x, k) ==
    IF k > Len(x) THEN Len(x)
    ELSE IF Char(x, k) = ":" THEN k - 1
    ELSE index_colon(x, k + 1)

\* reorder_errors, lines 1103-1104: the sort key int(x[1:x.index(':')])
field_number(x) == PyInt(SubSeq(x, 2, index_colon(x, 1)))

\* Python: [e for e in errors if e.startswith(letter)], from the k-th element on
RECURSIVE starting_with(_, _, _)
starting_with(errors, letter, k) ==
    IF k > Len(errors) THEN <<>>
    ELSE (IF StartsWith(errors[k], letter) THEN <<errors[k]>> ELSE <<>>)
         \o starting_with(errors, letter, k + 1)

\* the element e put into the sorted list after the elements whose key is not greater
RECURSIVE insert_sorted(_, _)
insert_sorted(e, list) ==
    IF list = <<>> THEN <<e>>
    ELSE IF field_number(list[1]).v <= field_number(e).v
         THEN <<list[1]>> \o insert_sorted(e, Tail(list))
         ELSE <<e>> \o list

\* the list in the order of appearance
sorted_as_found(list) == list

\* Python: sorted(list, key=field_number), which is stable
RECURSIVE sorted_by_field(_)
sorted_by_field(list) ==
    IF list = <<>> THEN <<>>
    ELSE insert_sorted(list[Len(list)], sorted_by_field(SubSeq(list, 1, Len(list) - 1)))

\* Python: ', '.join(list)
RECURSIVE join_comma(_)
join_comma(list) ==
    IF list = <<>> THEN ""
    ELSE IF Len(list) = 1 THEN list[1]
    ELSE list[1] \o ", " \o join_comma(Tail(list))

\* Python: re.sub(r',\s*,\s*', ', ', s) on the pieces between the commas of s: a comma,
\* a piece of white space only and the next comma, with the white space after it,
\* become ', '; cur is the text of the k-th piece that is still to be written
RECURSIVE re_sub_commas(_, _, _)
re_sub_commas(parts, k, cur) ==
    IF k = Len(parts) THEN cur
    ELSE IF k + 1 < Len(parts) /\ Strip(parts[k + 1]) = ""
    THEN cur \o ", " \o re_sub_commas(parts, k + 2, LStrip(parts[k + 2]))
    ELSE cur \o "," \o re_sub_commas(parts, k + 1, parts[k + 1])

\* reorder_errors, lines 1096-1115
reorder_errors(error_str) ==
    LET errors == re_split(Strip(error_str))
        p_errors == starting_with(errors, "P", 1)
        c_errors == starting_with(errors, "C", 1)
        sorted_errors == sorted_by_field(p_errors) \o sorted_by_field(c_errors)
        sorted_errors_str == join_comma(sorted_errors)
        cleaned_errors_str ==
            re_sub_commas(Split(sorted_errors_str, ","), 1, Split(sorted_errors_str, ",")[1])
    IN  IF Len(cleaned_errors_str) > 0 /\ Char(cleaned_errors_str, Len(cleaned_errors_str)) = ","
        THEN SubSeq(cleaned_errors_str, 1, Len(cleaned_errors_str) - 1)
        ELSE cleaned_errors_str

\* the keys of the elements that reorder_errors sorts are all numbers
keys_are_numbers(error_str) ==
    LET errors == re_split(Strip(error_str)) IN
    \A k \in 1..Len(errors) :
        (StartsWith(errors[k], "P") \/ StartsWith(errors[k], "C")) =>
            index_colon(errors[k], 1) < Len(errors[k]) /\ field_number(errors[k]).ok

\* Complete_check, line 1128: reorder_errors applied to the column Error; int and index
\* raise ValueError
Complete_check_reorder ==
    /\ pc = "reorder_errors"
    /\ IF \A i \in DOMAIN result : keys_are_numbers(result[i]["Error"])
       THEN /\ result' = [i \in DOMAIN result |-> [Error |-> reorder_errors(result[i]["Error"])]]
            /\ pc' = "attachOG"
       ELSE /\ pc' = "ValueError"
            /\ UNCHANGED result
    /\ UNCHANGED <<og, df, id, dtype, COV, T_score_df, PFlag_df, m_dict, domain, error_df, local>>


\* pandas: the missing value (NaN, <NA>) of a cell in a column of strings, which no error
\* string, grade or flag equals
NA == "<NA>"

\* Vocabulary_check.attachOG, lines 1141-1146: what is added to the index of result
index_shift(t) ==
    IF t[0]["ID"] = "Obligation" THEN 6
    ELSE IF t[0]["ID"] = "Short Name" THEN 1
    ELSE 0

\* pandas: pd.merge(left, right[[column]], left_index=True, right_index=True, how='left')
merge_left(left, right, column) ==
    [i \in DOMAIN left |->
        [c \in {column} |-> IF i \in DOMAIN right THEN right[i][column] ELSE NA] @@ left[i]]

\* Vocabulary_check.attachOG, lines 1139-1150, after Complete_check
VC_attachOG ==
    /\ pc = "attachOG"
    /\ result' = [j \in {i + index_shift(og) : i \in DOMAIN result} |->
                     result[j - index_shift(og)]]
    /\ og' = merge_left(og, result', "Error")
    /\ pc' = "done"
    /\ UNCHANGED <<df, id, dtype, COV, T_score_df, PFlag_df, m_dict, domain, error_df, local>>

VCols == {"P12", "P6", "P7", "C4", "C23", "C27", "C29", "C31", "C32", "C38", "C43", "C45",
          "C46", "C48"}

\* the cells drawn for a numeric column
VCells ==
    {"nan", "0", "0.0", "-0", "10", " 10 ", "-12000", "9000", "9000.1", "-12000.5",
     "9999999", "abc", "10;20", "10;9999999", "9999999;10", "9999999;abc", "abc;10", "10;"}

VRecs ==
    {[EmptyRow(VCols) EXCEPT !["P12"] = p, ![c] = v] :
        p \in {"[Drilling]", "[Probing (offshore-ocean)]"}, c \in {"P6", "C4"}, v \in VCells}
    \cup
    {[EmptyRow(VCols) EXCEPT !["P12"] = "[Drilling]", !["C29"] = v, !["C27"] = a, !["C31"] = b] :
        v \in {"nan", "5", "abc"}, a \in {"nan", "5"}, b \in {"nan", "[cLOG]"}}
    \cup
    {[EmptyRow(VCols) EXCEPT !["P12"] = p, !["P6"] = v] :
        p \in {"nan", "[unspecified]", "[GTM]", "[Drilling];[Probing (offshore-ocean)]"},
        v \in {"nan", "10;nan"}}
    \cup
    {[EmptyRow(VCols) EXCEPT !["P12"] = "[Drilling]", !["P7"] = v] :
        v \in {"[Onshore (continental)]", " [Offshore (marine)] ", "[bogus]",
               "[bogus];[unspecified]", "[unspecified];[bogus]"}}
    \cup
    {[EmptyRow(VCols) EXCEPT !["P12"] = "[Drilling]", !["C45"] = v, !["C46"] = w] :
        v \in {"nan", "[Corrected in-situ (P)]", "[Corrected in-situ (pT)]",
               "[Replicated in-situ (p)]", "garbage"},
        w \in {"nan", "[p - Sibbitt (1975)]", "[T - Seipold (2001)]", "[unspecified]"}}
    \cup
    {[EmptyRow(VCols) EXCEPT !["P12"] = "[Probing (offshore-ocean)]", !["C43"] = v, !["C31"] = w] :
        v \in {"[Probe - pulse technique]", "[Lab - point source]", "[bogus]"},
        w \in {"nan", "[EGRT]"}}
    \cup
    {[EmptyRow(VCols) EXCEPT !["P12"] = "[Drilling]", !["C38"] = v] :
        v \in {"[Unspecified]", "1900-01", "1899-12", "2020-7", "2020-13", "1985-99",
               "1850-99", "1999", "1899", "1998", "99", "2020-1-99", "June 2020",
               "1800-01;2000-01"}}

\* the cells of the rows 0 and 1 of a file in the long header form
VHeaders == {<<"M", "B,S">>, <<"M", "S">>, <<"O", "B">>}

\* the table of form with the obligation m and the domain d in every column
VTable(form, m, d, data) ==
    LET t == Table(form, VCols, data) IN
    IF form = "Obligation"
    THEN [t EXCEPT ![0] = [c \in DOMAIN t[0] |-> IF c = "ID" THEN "Obligation" ELSE m],
                   ![1] = [c \in DOMAIN t[1] |-> IF c = "ID" THEN "Domain" ELSE d]]
    ELSE t

InitV ==
    /\ \E form \in Forms, h \in VHeaders, n \in 1..MaxRowsV :
          \E data \in [1..n -> VRecs] : og = VTable(form, h[1], h[2], data)
    /\ pc = "Complete_check"
    /\ df = <<>>
    /\ id = 0
    /\ dtype = {}
    /\ COV = <<>>
    /\ T_score_df = <<>>
    /\ PFlag_df = <<>>
    /\ m_dict = <<>>
    /\ domain = <<>>
    /\ error_df = <<>>
    /\ result = <<>>
    /\ local = <<>>

NextV ==
    Complete_check \/ vocabcheck_A \/ vocabcheck_NumC \/ vocabcheck_StrC \/ vocabcheck_C38
    \/ Complete_check_reorder \/ VC_attachOG

SpecV == InitV /\ [][NextV]_vars

\* the validator on the records that differ in C27, C29, C31, C46, C38 or P12 only
ERecs ==
    {r \in VRecs :
        /\ \A c \in {"P6", "C4", "P7", "C43", "C45"} : r[c] = "nan"
        /\ r["C38"] \in {"nan", "1899-12", "June 2020"}}

InitE ==
    /\ \E form \in Forms, h \in VHeaders, n \in 1..MaxRowsE :
          \E data \in [1..n -> ERecs] : og = VTable(form, h[1], h[2], data)
    /\ pc = "Complete_check"
    /\ df = <<>>
    /\ id = 0
    /\ dtype = {}
    /\ COV = <<>>
    /\ T_score_df = <<>>
    /\ PFlag_df = <<>>
    /\ m_dict = <<>>
    /\ domain = <<>>
    /\ error_df = <<>>
    /\ result = <<>>
    /\ local = <<>>

SpecE == InitE /\ [][NextV]_vars

\* the cells of the numeric columns that vocabcheck has given an error string: <<label, column>>
NumChecked ==
    IF error_df = <<>> THEN {}
    ELSE {x \in (DOMAIN df) \X Range(NumC_present) : x[2] \in DOMAIN error_df[x[1]]}

\* the sub-value s is a number inside the range of column c
InRange(c, s) ==
    LET v == PyFloat(s) IN
    v.ok /\ LE(tndf("Min", c), v.f) /\ LE(v.f, tndf("Max", c))

\* the sub-value s is a number outside the range of column c
OutOfRange(c, s) ==
    LET v == PyFloat(s) IN
    v.ok /\ ~isnan(v.f) /\ ~InRange(c, s)

\* C9: a numeric cell of several sub-values, all of them numbers, gets a range violation
\* whenever one of the sub-values is outside the range of its column, wherever it stands
\* in the cell, and neither a range nor a format error when all are inside.
C9_WorstSubvalueWins ==
    \A x \in NumChecked :
        LET c == x[2]
            values == Split(df[x[1]][c], ";")
            e == error_df[x[1]][c]
        IN  (Len(values) > 1
               /\ \A k \in 1..Len(values) : InRange(c, values[k]) \/ OutOfRange(c, values[k]))
            => IF \E k \in 1..Len(values) : OutOfRange(c, values[k])
               THEN Contains("range violated", e)
               ELSE ~Contains("range violated", e) /\ ~Contains("invalid format", e)

\* C10: a numeric cell of a single sub-value gets no range or format error when the value
\* is a number inside the range of its column, zero in any of its forms included,
\* 'range violated' when it is a number outside the range, and 'invalid format' when it
\* is not a number.
C10_SingleSubvalue ==
    \A x \in NumChecked :
        LET c == x[2]
            cell == df[x[1]][c]
            e == error_df[x[1]][c]
        IN  (~Contains(";", cell) /\ cell # "nan")
            => /\ InRange(c, cell)
                    => ~Contains("range violated", e) /\ ~Contains("invalid format", e)
               /\ OutOfRange(c, cell) => e = " " \o c \o ":range violated,"
               /\ ~PyFloat(cell).ok => e = " " \o c \o ":invalid format,"

\* the cells of the categorical columns that vocabcheck has given an error string
StrChecked ==
    IF error_df = <<>> THEN {}
    ELSE {x \in (DOMAIN df) \X Range(StrC_present) : x[2] \in DOMAIN error_df[x[1]]}

\* the sub-values of the cell x, stripped
SubValuesOf(x) ==
    LET values == Split(df[x[1]][x[2]], ";") IN {Strip(values[k]) : k \in 1..Len(values)}

\* C11: in a categorical cell, compared in lower case, a cell whose sub-values are all
\* members of the vocabulary of its column gets no vocabulary warning, and a cell with a
\* present sub-value outside the vocabulary gets an error message.
C11_VocabularyMembership ==
    \A x \in StrChecked :
        LET c == x[2]
            e == error_df[x[1]][c]
        IN  /\ (\A v \in SubValuesOf(x) : In(v, tsdf[c])) => ~Contains("vocabulary warning", e)
            /\ (\E v \in SubValuesOf(x) : v # "nan" /\ ~In(v, tsdf[c])) => e # ""

\* the records whose date cell has been given an error string
DateChecked ==
    IF error_df = <<>> THEN {} ELSE {i \in DOMAIN df : "C38" \in DOMAIN error_df[i]}

\* the value v is a 4-digit year followed by the sentinel 99, with or without a hyphen
IsYear99(v) ==
    /\ Len(v) \in {6, 7}
    /\ AllDigits(Prefix(v, 4))
    /\ SubSeq(v, 5, Len(v)) \in {"99", "-99"}

\* the year of a present date: of the sentinel form, or else of the year-month form
YearOf(v) == IF IsYear99(v) THEN DecVal(Prefix(v, 4), 0) ELSE strptime_Ym(v).year

\* C12: a present, single value of C38: '[unspecified]' is accepted; a 4-digit year
\* followed by 99 is January 1 of that year; any other value is read as year-month; a
\* date from January 1900 on gives no error, an earlier date 'range violated', and a
\* value that does not parse 'invalid format'.
C12_DateField ==
    \A i \in DateChecked :
        LET v == Strip(Lower(df[i]["C38"]))
            e == error_df[i]["C38"]
        IN  (df[i]["C38"] # "nan" /\ ~Contains(";", v)) =>
               IF v = "[unspecified]" THEN e = ""
               ELSE IF IsYear99(v) \/ strptime_Ym(v).ok
               THEN IF YearOf(v) >= 1900 THEN e = "" ELSE Contains("range violated", e)
               ELSE Contains("invalid format", e)

\* the cell of P12 is missing, unspecified, other, or names both a probe and a borehole
\* method
P12_Indeterminate(cell) ==
    LET subs == Split(Lower(cell), ";")
        vals == {Strip(subs[k]) : k \in 1..Len(subs)}
    IN  \/ vals \cap {"nan", "[unspecified]", "[other (specify in comments)]"} # {}
        \/ (\E v \in vals : In(v, P)) /\ (\E v \in vals : In(v, B))

\* C13: a record whose P12 is missing, '[unspecified]', '[other (specify in comments)]'
\* or a mix of probe and borehole methods is graded Mx by the Methodology scorer.
C13_IndeterminateP12IsMx ==
    pc \in {"done", "KeyError"} =>
        \A i \in DOMAIN df :
            P12_Indeterminate(df[i]["P12"]) =>
                /\ "M_Score" \in DOMAIN T_score_df[i]
                /\ T_score_df[i]["M_Score"] = "Mx"

\* the obligation of column c is Mandatory and its domain covers the record row: B for a
\* Borehole/Mine record, S for a Probe record
MandatoryFor(c, row) ==
    /\ m_dict[c] = "M"
    /\ \/ Contains("B", domain[c]) /\ In(P12_of(row["P12"]), VC_B)
       \/ Contains("S", domain[c]) /\ In(P12_of(row["P12"]), VC_P)

\* the empty cells of the numeric and categorical columns of the Borehole/Mine and Probe
\* records of a table with an Obligation and a Domain row
EmptyChecked ==
    {x \in NumChecked \cup StrChecked :
        /\ og[0]["ID"] = "Obligation"
        /\ df[x[1]][x[2]] = "nan"
        /\ In(P12_of(df[x[1]]["P12"]), VC_B) \/ In(P12_of(df[x[1]]["P12"]), VC_P)}

\* C14: in a Borehole/Mine or Probe record an empty numeric or categorical cell gets
\* 'Mandatory entry is empty!' exactly when the column is Mandatory and its domain covers
\* the record, except C27, C46 and the C4 of a Probe record with P6; a column that is not
\* Mandatory never gets it.
C14_MandatoryEmpty ==
    \A x \in EmptyChecked :
        LET c == x[2]
            row == df[x[1]]
            said == Contains("Mandatory entry is empty!", error_df[x[1]][c])
            excepted == \/ c \in {"C27", "C46"}
                        \/ c = "C4" /\ In(P12_of(row["P12"]), VC_P) /\ row["P6"] # "nan"
        IN  /\ m_dict[c] # "M" => ~said
            /\ ~excepted => (said <=> MandatoryFor(c, row))

\* the non-empty pieces between the commas of s, stripped, from the k-th piece on
RECURSIVE Pieces(_, _)
Pieces(s, k) ==
    LET parts == Split(s, ",") IN
    IF k > Len(parts) THEN <<>>
    ELSE (IF Strip(parts[k]) = "" THEN <<>> ELSE <<Strip(parts[k])>>) \o Pieces(s, k + 1)

\* the messages vocabcheck wrote for record i, in the order of the columns from the k-th on
RECURSIVE Produced(_, _)
Produced(i, k) ==
    IF k > Len(error_columns) THEN <<>>
    ELSE Pieces(error_df[i][error_columns[k]], 1) \o Produced(i, k + 1)

\* the number of elements of list equal to m
Count(list, m) == Cardinality({k \in 1..Len(list) : list[k] = m})

\* the records whose error string Complete_check has reordered
Reordered == IF pc = "attachOG" THEN DOMAIN result ELSE {}

\* C15: the error string of Complete_check holds exactly the messages vocabcheck produced
\* for the record, those of the P fields before those of the C fields, each group
\* ascending by field number, joined by ', ' with no empty entry, no doubled separator
\* and no trailing comma; it is empty when there is no message.
C15_ErrorStringOrdered ==
    \A i \in Reordered :
        LET out == result[i]["Error"]
            produced == Produced(i, 1)
            parts == Split(out, ",")
            entries == [k \in 1..Len(parts) |-> IF k = 1 THEN parts[k] ELSE Tail(parts[k])]
        IN  IF produced = <<>> THEN out = ""
            ELSE /\ \A k \in 2..Len(parts) : Len(parts[k]) > 0 /\ Char(parts[k], 1) = " "
                 /\ \A k \in 1..Len(entries) : entries[k] # "" /\ Strip(entries[k]) = entries[k]
                 /\ Len(entries) = Len(produced)
                 /\ \A k \in 1..Len(produced) :
                        Count(entries, produced[k]) = Count(produced, produced[k])
                 /\ \A k, l \in 1..Len(entries) :
                        k < l =>
                            \/ Char(entries[k], 1) = "P" /\ Char(entries[l], 1) = "C"
                            \/ /\ Char(entries[k], 1) = Char(entries[l], 1)
                               /\ Char(entries[k], 1) \in {"P", "C"}
                               /\ field_number(entries[k]).v <= field_number(entries[l]).v

\* a reordered error string of a P message and several C messages that vocabcheck
\* produced in another order
C15_Witness ==
    \E i \in Reordered :
        /\ Len(Produced(i, 1)) >= 3
        /\ \E k \in 1..Len(Produced(i, 1)) : Char(Produced(i, 1)[k], 1) = "P"
        /\ join_comma(Produced(i, 1)) # result[i]["Error"]
        /\ \E k \in 1..(Len(Produced(i, 1)) - 1) :
              /\ Char(Produced(i, 1)[k], 1) = "C"
              /\ Char(Produced(i, 1)[k + 1], 1) = "C"
              /\ field_number(Produced(i, 1)[k]).v > field_number(Produced(i, 1)[k + 1]).v

\* the error string Complete_check gives the record of label k
ErrorOf(k) == reorder_errors(join(error_df[k], 1))

\* C17: under the header forms Obligation and Short Name, Vocabulary_check.attachOG gives
\* the original row of record k the error string of record k, and the header rows, and
\* only those, are left null.
C17_ErrorAttachedToOwnRow ==
    (pc = "done" /\ error_df # <<>> /\ og[0]["ID"] \in {"Obligation", "Short Name"}) =>
        LET h == IF og[0]["ID"] = "Obligation" THEN 7 ELSE 1
        IN  /\ \A i \in 0..(h - 1) : og[i]["Error"] = NA
            /\ \A k \in DOMAIN df : og[k + h - 1]["Error"] = ErrorOf(k)

(***************************************************************************)
(* 10. Combined_score.combined_score and Combined_score.attachOG           *)
(***************************************************************************)
\* combined_score, line 887: complete_MScore_calc follows CompleteUscore_calc
combined_score_MScore ==
    /\ pc = "done"
    /\ COV # <<>> /\ T_score_df = <<>>
    /\ pc' = "concatenate_TScores"
    /\ UNCHANGED <<og, df, id, dtype, COV, T_score_df, PFlag_df, m_dict, domain, error_df,
                   result, local>>

\* combined_score, line 888: complete_PFlag_calc follows complete_MScore_calc
combined_score_Pflag ==
    /\ pc = "done"
    /\ T_score_df # <<>> /\ PFlag_df = <<>>
    /\ pc' = "complete_PFlag_calc"
    /\ UNCHANGED <<og, df, id, dtype, COV, T_score_df, PFlag_df, m_dict, domain, error_df,
                   result, local>>

\* pandas: a + b + '.' + c of three columns of strings, aligned on the labels: the label
\* i has a value when it is a label of all three
Combined_score(UScore, MScore, Pflag, i) ==
    IF i \in DOMAIN UScore /\ i \in DOMAIN MScore /\ i \in DOMAIN Pflag
    THEN UScore[i]["U_score"] \o MScore[i]["M_Score"] \o "." \o Pflag[i]["P_Flag"]
    ELSE NA

\* combined_score, lines 889-892: the first column gives result its index, the others are
\* aligned on it
combined_score ==
    /\ pc = "done"
    /\ PFlag_df # <<>> /\ result = <<>>
    /\ result' = [i \in DOMAIN COV |->
                     [U_score |-> COV[i]["U_score"],
                      M_score |-> IF i \in DOMAIN T_score_df THEN T_score_df[i]["M_Score"] ELSE NA,
                      P_flags |-> IF i \in DOMAIN PFlag_df THEN PFlag_df[i]["P_Flag"] ELSE NA,
                      Combined_score |-> Combined_score(COV, T_score_df, PFlag_df, i)]]
    /\ pc' = "attachOG"
    /\ UNCHANGED <<og, df, id, dtype, COV, T_score_df, PFlag_df, m_dict, domain, error_df, local>>

\* attachOG, lines 908-940: the rows of result_structure on top of result
result_structure(t) ==
    IF t[0]["ID"] = "Obligation"
    THEN [i \in 0..6 |->
            [U_score |-> <<"-", "-", "-", "uncertainty quantification", "-", "-", "U-score">>[i + 1],
             M_score |-> <<"-", "-", "-", "methodological quality", "-", "-", "M-score">>[i + 1],
             P_flags |-> <<"-", "-", "-", "perturbations effects", "-", "-", "P-flags">>[i + 1],
             Combined_score |-> <<"-", "-", "-", "quality code", "-", "-", "Quality_Code">>[i + 1]]]
    ELSE IF t[0]["ID"] = "Short Name"
    THEN [i \in 0..0 |-> [U_score |-> "U-score", M_score |-> "M-score", P_flags |-> "P-flags",
                          Combined_score |-> "Quality_Code"]]
    ELSE <<>>

\* pandas: pd.concat([top, frame], ignore_index=True), top labelled from 0 and frame from 1
concat_ignore_index(top, frame) ==
    LET h == Cardinality(DOMAIN top) IN
    [i \in 0..(h + Cardinality(DOMAIN frame) - 1) |-> IF i < h THEN top[i] ELSE frame[i - h + 1]]

\* Combined_score.attachOG, lines 904-950, after combined_score
CS_attachOG ==
    /\ pc = "attachOG"
    /\ LET r == IF og[0]["ID"] \in {"Obligation", "Short Name"}
                THEN concat_ignore_index(result_structure(og), result)
                ELSE result
       IN  /\ result' = r
           /\ og' = [i \in DOMAIN og |->
                        [c \in {"A9", "A10", "A11", "A12"} |->
                            IF i \notin DOMAIN r THEN NA
                            ELSE IF c = "A9" THEN r[i]["Combined_score"]
                            ELSE IF c = "A10" THEN r[i]["U_score"]
                            ELSE IF c = "A11" THEN r[i]["M_score"]
                            ELSE r[i]["P_flags"]] @@ og[i]]
    /\ pc' = "attached"
    /\ UNCHANGED <<df, id, dtype, COV, T_score_df, PFlag_df, m_dict, domain, error_df, local>>

CCols == UCols \cup MCols \cup PCols

\* records made of a part of each pipeline
CRecs ==
    {m @@ u @@ p :
        m \in {ProbeGood, BoreMid, [ProbeGood EXCEPT !["P12"] = "[unspecified]"]},
        u \in {[C1 |-> "100", C2 |-> "4.99"], [C1 |-> "100", C2 |-> "25.01"]},
        p \in {EmptyRow(PCols), [EmptyRow(PCols) EXCEPT !["C13"] = "[Present and corrected]"]}}

InitC ==
    /\ \E form \in Forms, n \in 1..MaxRowsC :
          \E data \in [1..n -> CRecs] : og = Table(form, CCols, data)
    /\ pc = "CompleteUscore_calc"
    /\ df = <<>>
    /\ id = 0
    /\ dtype = {}
    /\ COV = <<>>
    /\ T_score_df = <<>>
    /\ PFlag_df = <<>>
    /\ m_dict = <<>>
    /\ domain = <<>>
    /\ error_df = <<>>
    /\ result = <<>>
    /\ local = <<>>

NextC ==
    \/ NextU
    \/ combined_score_MScore
    \/ NextM
    \/ combined_score_Pflag
    \/ NextP
    \/ combined_score
    \/ CS_attachOG

SpecC == InitC /\ [][NextC]_vars

\* the label in a frame indexed from first of the k-th record of the table
LabelOf(first, k) == first + k - 1

\* the number of header rows of og
HeaderOf(t) ==
    IF t[0]["ID"] = "Obligation" THEN 7 ELSE IF t[0]["ID"] = "Short Name" THEN 1 ELSE 0

\* C16: under every table form Combined_score.attachOG gives the original row of the
\* k-th record the U, M and P results of the k-th record and the code U + M + '.' + P.
C16_ScoresAttachedToOwnRow ==
    pc = "attached" =>
        \A k \in 1..Len(COV) :
            LET row == og[LabelOf(HeaderOf(og), k)]
                U == COV[k]["U_score"]
                M == T_score_df[LabelOf(MinLabel(T_score_df), k)]["M_Score"]
                Pf == PFlag_df[LabelOf(MinLabel(PFlag_df), k)]["P_Flag"]
            IN  /\ row["A10"] = U
                /\ row["A11"] = M
                /\ row["A12"] = Pf
                /\ row["A9"] = U \o M \o "." \o Pf

\* what complete_MScore_calc returns for the record r in a table of the same form that
\* holds r alone: its grade, or KeyError when T_quality finds no column T_score
MGradeAlone(r) ==
    IF ~In(r["P12"], P) /\ ~In(r["P12"], B) THEN "KeyError"
    ELSE LET w0 == [c \in {"P12"} |-> r["P12"]] @@ ProbeT_row(r) @@ ProbeTC_row(r)
                       @@ Bore_t_row(r) @@ Bore_tc_row(r, dtype)
             w1 == merge_row(w0) @@ w0
             w2 == [c \in {"T_Quality"} |-> T_Quality(w1)] @@ w1
         IN  M_Score(w2)

\* what complete_MScore_calc returns for the record of label i of the table
MGradeIn(i) == IF pc = "done" THEN T_score_df[i]["M_Score"] ELSE "KeyError"

\* C18: the M result of a record depends on the values of the record and the header rows
\* only: in a table with other records it is what it is in a table of the record alone.
C18_OwnValuesOnly ==
    pc \in {"done", "KeyError"} => \A i \in DOMAIN df : MGradeIn(i) = MGradeAlone(df[i])

\* the criterion of field c with the outcome o has added a penalty and nothing else, or
\* has added none, set the undetermined flag and appended the code of its field
Decided(o, c) ==
    \/ o.p # {} /\ ~o.x /\ o.e = ""
    \/ o.p = {} /\ o.x /\ Contains(c, o.e)

\* the criteria that Bore_tc_M_score evaluates for the record r: C41 alone when the loop
\* is left at C42
BtcEvaluated(r) == IF C4_or_C5_is_nan(r, dtype) THEN {"C41"} ELSE Range(Btc)

\* C19: in each of the four sub-scorers every evaluated criterion either adds one penalty
\* to the sub-score or, when no band fires, leaves the score as it is, sets the
\* undetermined flag and appends its field code to the error message; never neither.
C19_PenaltyOrFlag ==
    \A i \in Graded :
        /\ In(df[i]["P12"], P) =>
              /\ \A k \in 1..Len(Pt) : Decided(ProbeT_criterion(Pt[k], df[i]), Pt[k])
              /\ \A k \in 1..Len(Ptc) : Decided(ProbeTC_criterion(Ptc[k], df[i]), Ptc[k])
        /\ In(df[i]["P12"], B) =>
              /\ Decided(Bore_t_criterion(df[i]), "C3")
              /\ \A c \in BtcEvaluated(df[i]) : Decided(Bore_tc_criterion(c, df[i]), c)

\* the sub-values of a cell, stripped
SubValues(cell) ==
    LET values == Split(cell, ";") IN {Strip(values[k]) : k \in 1..Len(values)}

\* the categorical criterion fields of the thermal-conductivity sub-scorer of record r
\* and the outcome of the criterion of field c for a record
CategoricalOf(r) ==
    IF In(r["P12"], P) THEN {"C42", "C43", "C45"}
    ELSE IF In(r["P12"], B) THEN BtcEvaluated(r) \cap {"C41", "C42", "C44", "C45"}
    ELSE {}
OutcomeOf(c, r) == IF In(r["P12"], P) THEN ProbeTC_criterion(c, r) ELSE Bore_tc_criterion(c, r)

\* C20: when a categorical criterion field of a methodology sub-scorer holds several
\* semicolon-separated values, the penalty applied is the least of the penalties that
\* each sub-value alone gets.
C20_LeastOverSubvalues ==
    \A i \in Graded :
        \A c \in CategoricalOf(df[i]) :
            LET alone == {OutcomeOf(c, [df[i] EXCEPT ![c] = v]) : v \in SubValues(df[i][c])}
                o == OutcomeOf(c, df[i])
            IN  (Cardinality(SubValues(df[i][c])) > 1 /\ \A a \in alone : a.p # {}) =>
                    /\ o.p # {}
                    /\ least_penalty(o.p) = least_penalty(UNION {a.p : a \in alone})

(***************************************************************************)
(* 11. The borehole temperature-gradient score over C31, C32 and C37       *)
(***************************************************************************)
BRecs ==
    {[BoreGood EXCEPT !["C31"] = a, !["C32"] = b, !["C37"] = n] :
        a \in {"nan", "[SUR]", "[LOGeq]", "[LOGpert]", "[BHT]"},
        b \in {"nan", "[BHT]", "[CPD]", "[cLOG]"},
        n \in {"nan", "2", "14", "15", "16"}}
    \cup
    {[BoreGood EXCEPT !["C4"] = a, !["C5"] = b] : a \in {"nan", "0", "100"}, b \in {"nan", "200"}}

InitB ==
    /\ \E form \in Forms, n \in 1..MaxRowsB :
          \E data \in [1..n -> BRecs] : og = Table(form, MCols, data)
    /\ pc = "concatenate_TScores"
    /\ df = <<>>
    /\ id = 0
    /\ dtype = {}
    /\ COV = <<>>
    /\ T_score_df = <<>>
    /\ PFlag_df = <<>>
    /\ m_dict = <<>>
    /\ domain = <<>>
    /\ error_df = <<>>
    /\ result = <<>>
    /\ local = <<>>

SpecB == InitB /\ [][NextM]_vars

\* the rows that Bore_t_M_score has scored: the graded borehole/mine records
BoreGraded == {i \in Graded : In(df[i]["P12"], B)}

SurMethods ==
    {"[cpd]", "[xen]", "[gtm]", "[bsr]", "[bht]", "[dst]", "[rtdpert]", "[cbht]", "[cdst]",
     "[rtdeq]", "[rtdc]", "[oddt-pc]", "[oddt-tp]"}
ManyPointMethods == {"[logpert]", "[logeq]", "[clog]", "[dtseq]", "[cdts]"}
FewPointMethods ==
    {"[cpd]", "[xen]", "[gtm]", "[bsr]", "[logpert]", "[dtspert]", "[bht]", "[dst]",
     "[rtdpert]", "[blk]", "[logeq]", "[clog]", "[dtseq]", "[cdts]", "[cbht]", "[rtdeq]",
     "[rtdc]", "[oddt-pc]", "[oddt-tp]"}

\* the record r matches a combination that some branch of Bore_t_M_score recognises,
\* whichever of the two method fields is looked at
Recognised(r) ==
    \/ r["C31"] = "[sur]" /\ r["C32"] \in SurMethods
    \/ GT(r["C37"], Num(15)) /\ {r["C31"], r["C32"]} \cap ManyPointMethods # {}
    \/ GT(Num(15), r["C37"]) /\ GT(r["C37"], Num(2))
          /\ {r["C31"], r["C32"]} \cap FewPointMethods # {}

\* C21: the temperature-gradient score of a borehole/mine record is 1.0 plus one penalty
\* of the tiers -0.6, -0.5, -0.3, -0.1, 0, +0.1, no undetermined flag is set, and a record
\* that matches no recognised combination of C31/C32 and C37 (a missing C37 included)
\* gets -0.6, the score 0.4.
C21_BoreTOneTier ==
    \A i \in BoreGraded :
        LET t == T_score_df[i]["T_score"]
        IN  /\ t \in {Q(4, 10), Q(5, 10), Q(7, 10), Q(9, 10), Num(1), Q(11, 10)}
            /\ ~Bore_t_criterion(df[i]).x
            /\ ~Recognised(df[i]) => t = Q(4, 10)

\* a graded borehole record without C37 and without the SUR combination, scored 0.4
C21_Witness ==
    \E i \in BoreGraded :
        /\ isnan(df[i]["C37"])
        /\ df[i]["C31"] # "[sur]"
        /\ T_score_df[i]["T_score"] = Q(4, 10)

\* C22: Bore_tc_M_score leaves its loop at C42 with the score 0.1 exactly when C4 and C5
\* are both missing; with one of them present all criteria are evaluated.
C22_EarlyExitIffBothMissing ==
    \A i \in BoreGraded :
        LET both == isnan(df[i]["C4"]) /\ isnan(df[i]["C5"])
            o == [k \in 1..Len(Btc) |-> Bore_tc_criterion(Btc[k], df[i])]
        IN  T_score_df[i]["TC_score"] = IF both THEN Q(1, 10) ELSE ScoreAfter(o, Len(Btc))

(***************************************************************************)
(* 12. The probe temperature-gradient score over P6, C6, C23 and C37       *)
(***************************************************************************)
TRecs ==
    {[ProbeGood EXCEPT !["P6"] = w, !["C6"] = d, !["C23"] = t, !["C37"] = n] :
        w \in {"nan", "-1500", "3000"},
        d \in {"0.5", "3", "5", "11"},
        t \in {"nan", "30", "5", "0"},
        n \in {"nan", "3", "6"}}
    \cup
    {[ProbeGood EXCEPT !["C45"] = "[Replicated in-situ (p)]"]}
    \cup
    {[ProbeGood EXCEPT !["C23"] = t, !["C11"] = "[Tilt corrected]"] :
        t \in {"nan", "35", "20", "5", "0"}}

InitT ==
    /\ \E form \in Forms, n \in 1..MaxRowsT :
          \E data \in [1..n -> TRecs] : og = Table(form, MCols, data)
    /\ pc = "concatenate_TScores"
    /\ df = <<>>
    /\ id = 0
    /\ dtype = {}
    /\ COV = <<>>
    /\ T_score_df = <<>>
    /\ PFlag_df = <<>>
    /\ m_dict = <<>>
    /\ domain = <<>>
    /\ error_df = <<>>
    /\ result = <<>>
    /\ local = <<>>

SpecT == InitT /\ [][NextM]_vars

\* the graded probe records
ProbeGraded == {i \in Graded : In(df[i]["P12"], P)}

\* the penalties, in tenths, of the bands of water depth, penetration depth, tilt and
\* number of temperature points
WaterPenalty(v) ==
    IF isnan(v) \/ LT(Abs(v), Num(1500)) THEN -2 ELSE IF LE(Abs(v), Num(2500)) THEN -1 ELSE 0
PenetrationPenalty(v) ==
    IF isnan(v) \/ LT(v, Num(1)) THEN -2
    ELSE IF LE(v, Num(3)) THEN -1 ELSE IF LE(v, Num(10)) THEN 0 ELSE 1
TiltPenalty(v) == IF isnan(v) \/ GT(v, Num(30)) THEN -2 ELSE IF GT(v, Num(10)) THEN -1 ELSE 0
PointsPenalty(v) ==
    IF isnan(v) \/ LT(v, Num(1)) THEN -2
    ELSE IF LE(v, Num(3)) THEN -1 ELSE IF LE(v, Num(5)) THEN 0 ELSE 1

\* C23: the temperature-gradient score of a probe record whose tilt is missing or above 0
\* is 1.0 plus the penalties of the bands of |P6|, C6, C23 and C37; water depth 3000,
\* penetration 5, tilt 5 and 6 points give 1.1, and with a conductivity score of 1.0 the
\* product is 1.1 and the grade M1 without suffix.
C23_ProbeTSumOfBands ==
    \A i \in ProbeGraded :
        LET r == df[i]
            t == T_score_df[i]["T_score"]
        IN  /\ (isnan(r["C23"]) \/ GT(r["C23"], Num(0))) =>
                  t = Q(10 + WaterPenalty(r["P6"]) + PenetrationPenalty(r["C6"])
                          + TiltPenalty(r["C23"]) + PointsPenalty(r["C37"]), 10)
            /\ (r["P6"] = Num(3000) /\ r["C6"] = Num(5) /\ r["C23"] = Num(5) /\ r["C37"] = Num(6)) =>
                  /\ t = Q(11, 10)
                  /\ T_score_df[i]["TC_score"] = Num(1) =>
                        /\ T_score_df[i]["T_Quality"] = Q(11, 10)
                        /\ T_score_df[i]["M_Score"] = "M1"

\* the graded record of the example with the conductivity score 1.0, and a graded record
\* with a penalty in each of the four criteria
C23_Witness ==
    /\ \E i \in ProbeGraded :
          /\ df[i]["P6"] = Num(3000) /\ df[i]["C6"] = Num(5)
          /\ df[i]["C23"] = Num(5) /\ df[i]["C37"] = Num(6)
          /\ T_score_df[i]["TC_score"] = Num(1)
          /\ T_score_df[i]["M_Score"] = "M1"

(***************************************************************************)
(* 13. The range of the sub-scores, of their product and of the grade      *)
(***************************************************************************)
\* probe and borehole records with the lowest and the highest penalties of every criterion
GRecs ==
    {[ProbeGood EXCEPT !["P6"] = t[1], !["C6"] = t[2], !["C23"] = t[3], !["C37"] = t[4],
                       !["C42"] = c[1], !["C43"] = c[2], !["C45"] = c[3], !["C47"] = c[4]] :
        t \in {<<"nan", "nan", "nan", "nan">>, <<"3000", "11", "5", "6">>},
        c \in {<<"[Actual heat-flow location]", "[Probe - pulse technique]",
                 "[Actual in-situ (pT) conditions]", "5">>,
               <<"[Other location]", "[unspecified]", "[unspecified]", "nan">>,
               <<"[Literature/unspecified]", "[unspecified]", "[unspecified]", "nan">>,
               <<"nan", "nan", "nan", "nan">>}}
    \cup
    {[BoreGood EXCEPT !["C31"] = t[1], !["C37"] = t[2], !["C4"] = c[1],
                      !["C41"] = c[2], !["C42"] = c[3], !["C44"] = c[4],
                      !["C45"] = c[5], !["C47"] = c[6]] :
        t \in {<<"nan", "nan">>, <<"[LOGeq]", "20">>},
        c \in {<<"100", "[In-situ probe]", "[Actual heat-flow location]",
                 "[Saturated measured]", "[Actual in-situ (pT) conditions]", "20">>,
               <<"100", "[unspecified]", "[Literature/unspecified]", "[Dry measured]",
                 "[unspecified]", "nan">>,
               <<"100", "[unspecified]", "[Other location]", "[Dry measured]",
                 "[unspecified]", "nan">>,
               <<"100", "nan", "nan", "nan", "nan", "nan">>}}
    \cup
    {[BoreGood EXCEPT !["C4"] = "nan", !["C5"] = "nan", !["C31"] = "nan", !["C37"] = "nan"]}

InitG ==
    /\ \E form \in Forms, n \in 1..MaxRowsM :
          \E data \in [1..n -> GRecs] : og = Table(form, MCols, data)
    /\ pc = "concatenate_TScores"
    /\ df = <<>>
    /\ id = 0
    /\ dtype = {}
    /\ COV = <<>>
    /\ T_score_df = <<>>
    /\ PFlag_df = <<>>
    /\ m_dict = <<>>
    /\ domain = <<>>
    /\ error_df = <<>>
    /\ result = <<>>
    /\ local = <<>>

SpecG == InitG /\ [][NextM]_vars

\* C24: for every graded probe or borehole/mine record both sub-scores are defined and
\* positive, the quality product is at least 0 and below 1.5, and the grade is one of
\* M1..M4 with or without the suffix x, never Mx.
C24_GradeNeverMx ==
    \A i \in ProbeGraded \cup BoreGraded :
        LET w == T_score_df[i]
        IN  /\ GT(w["T_score"], Num(0))
            /\ GT(w["TC_score"], Num(0))
            /\ GE(w["T_Quality"], Num(0))
            /\ LT(w["T_Quality"], Q(15, 10))
            /\ w["M_Score"] \in {"M1", "M2", "M3", "M4", "M1x", "M2x", "M3x", "M4x"}

\* a borehole record with the lowest sub-scores (0.4 and 0.1) and a probe record with the
\* highest (1.2 and 1.2) have been graded
C24_Witness ==
    /\ \E i \in BoreGraded :
          /\ T_score_df[i]["T_score"] = Q(4, 10)
          /\ T_score_df[i]["TC_score"] = Q(1, 10)
          /\ ~isnan(df[i]["C4"])
          /\ T_score_df[i]["M_Score"] = "M4"
    /\ \E i \in ProbeGraded :
          /\ T_score_df[i]["T_Quality"] = Q(144, 100)
          /\ T_score_df[i]["M_Score"] = "M1"

\* the tier, in tenths, of the method m in the branch of more than 15 temperature points
\* and in the branch of 3 to 14 points
ManyPointTier(m) == IF m = "[logpert]" THEN -1 ELSE 1
FewPointTier(m) ==
    IF m \in {"[cpd]", "[xen]", "[gtm]", "[bsr]"} THEN -5
    ELSE IF m \in {"[logpert]", "[dtspert]", "[bht]", "[dst]", "[rtdpert]", "[blk]"} THEN -3
    ELSE -1

\* C25: in the branches of Bore_t_M_score keyed on C37, a borehole/mine record whose C31 is
\* missing or not a method of the branch and whose C32 is a method of the branch is scored
\* by the tier of C32.
C25_MethodFromC32 ==
    \A i \in BoreGraded :
        LET r == df[i]
            t == T_score_df[i]["T_score"]
        IN  /\ (GT(r["C37"], Num(15)) /\ r["C31"] \notin ManyPointMethods \cup {"[sur]"}
                  /\ r["C32"] \in ManyPointMethods)
                    => t = Q(10 + ManyPointTier(r["C32"]), 10)
            /\ (GT(Num(15), r["C37"]) /\ GT(r["C37"], Num(2))
                  /\ r["C31"] \notin FewPointMethods \cup {"[sur]"}
                  /\ r["C32"] \in FewPointMethods)
                    => t = Q(10 + FewPointTier(r["C32"]), 10)

\* C26: a probe record whose correction field read by ProbeT_score (C11) contains
\* "[tilt corrected]" gets the penalty 0 for the tilt whatever C23 is, a tilt above 10 and
\* a missing tilt included: its score is 1.0 plus the penalties of P6, C6 and C37.
C26_TiltCorrectedNoPenalty ==
    \A i \in ProbeGraded :
        Contains("[tilt corrected]", df[i]["C11"]) =>
            T_score_df[i]["T_score"] =
                Q(10 + WaterPenalty(df[i]["P6"]) + PenetrationPenalty(df[i]["C6"])
                     + PointsPenalty(df[i]["C37"]), 10)

\* C30: for fixed C31 and C32 the temperature-gradient score of a borehole/mine record
\* does not decrease when C37 is raised (from 14 to 15 or from 15 to 16, for example).
C30_MonotoneInC37 ==
    \A i \in BoreGraded :
        \A n \in {2, 3, 14, 15, 16} :
            LE(df[i]["C37"], Num(n)) =>
                LE(T_score_df[i]["T_score"],
                   Bore_t_row([df[i] EXCEPT !["C37"] = Num(n)]).Bore_Tscore)

(***************************************************************************)
(* 14. The domain of a record in the validator and in the scorer           *)
(***************************************************************************)
\* Vocabulary_check.py, line 128: the vocabulary of P12 as it is written in a table
sP12 ==
    <<"[Drilling]", "[Mining]", "[Tunneling]", "[GTM]", "[Indirect (GTM-BSR-CPD-etc.)]",
      "[Probing (onshore-lake-river-etc.)]", "[Probing (offshore-ocean)]",
      "[Drilling-Clustering]", "[Probing-Clustering]", "[Other (specify in comments)]",
      "[unspecified]">>

\* complete records whose P12 is one value of the validator's vocabulary
DRecs ==
    {[r EXCEPT !["P12"] = sP12[k]] : r \in {ProbeGood, BoreGood}, k \in 1..Len(sP12)}

InitD ==
    /\ \E form \in Forms, n \in 1..MaxRowsM :
          \E data \in [1..n -> DRecs] : og = Table(form, MCols, data)
    /\ pc = "concatenate_TScores"
    /\ df = <<>>
    /\ id = 0
    /\ dtype = {}
    /\ COV = <<>>
    /\ T_score_df = <<>>
    /\ PFlag_df = <<>>
    /\ m_dict = <<>>
    /\ domain = <<>>
    /\ error_df = <<>>
    /\ result = <<>>
    /\ local = <<>>

SpecD == InitD /\ [][NextM]_vars

\* the cell of P12, in lower case, passes the validator: it is in the vocabulary of P12
\* and column A gets no message for it
PassesP12(cell) == In(cell, tsdf["P12"]) /\ P12_error(cell) = ""

\* C27: for every single value of P12 of the validator's vocabulary the validator and the
\* scorer put the record in the same domain, and a record that passes the validator's
\* check of P12 is not graded Mx.
C27_SameDomain ==
    pc \in {"done", "KeyError"} =>
        \A i \in DOMAIN df :
            LET cell == df[i]["P12"] IN
            PassesP12(cell) =>
                /\ In(cell, VC_B) <=> In(cell, B)
                /\ In(cell, VC_P) <=> In(cell, P)
                /\ "M_Score" \in DOMAIN T_score_df[i] => T_score_df[i]["M_Score"] # "Mx"

(***************************************************************************)
(* 15. The date column C38 of the validator                                *)
(***************************************************************************)
\* the records of a table with an Obligation and a Domain row whose C38 is empty and has
\* been given its error string
C38EmptyChecked ==
    IF error_df = <<>> THEN {}
    ELSE {i \in DOMAIN df :
             /\ "C38" \in DOMAIN error_df[i]
             /\ og[0]["ID"] = "Obligation"
             /\ df[i]["C38"] = "nan"}

\* C29: an empty C38 gets 'Mandatory entry is empty!' only when the obligation of C38
\* itself is Mandatory and the domain of C38 itself covers the record, and the message
\* carries the prefix C38.
C29_C38OwnObligation ==
    \A i \in C38EmptyChecked :
        LET e == error_df[i]["C38"]
        IN  Contains("Mandatory entry is empty!", e) =>
                /\ MandatoryFor("C38", df[i])
                /\ StartsWith(e, " C38:")

(***************************************************************************)
(* 16. vocabcheck statement by statement: the loops over the sub-values    *)
(***************************************************************************)
\* vocabcheck, lines 820, 913 and 1023: the columns of the loop l that the table carries
loop_columns(l) ==
    IF l = "NumC" THEN NumC_present ELSE IF l = "StrC" THEN StrC_present ELSE <<"C38">>

\* lines 820-824, 913-916 and 1023: the cells of the loop l in the order the nested for
\* statements visit them, column by column and record by record
loop_cells(l) ==
    LET rows == MaxLabel(df) - MinLabel(df) + 1
    IN  [n \in 1..(Len(loop_columns(l)) * rows) |->
            [loop |-> l,
             c |-> loop_columns(l)[((n - 1) \div rows) + 1],
             id |-> MinLabel(df) + ((n - 1) % rows)]]

\* the cells of the three loops, in the order of the program
all_cells == loop_cells("NumC") \o loop_cells("StrC") \o loop_cells("C38")

\* dfvalue keeping the value it had before the for statement
for_dfvalue_unbound(element, before) == before

\* lines 841, 933 and 1040: the value of dfvalue once 'for dfvalue in dfvalue' has bound
\* it to the next element of the list
for_dfvalue_in(element, before) == element

\* lines 842-902, 934-1010 and 1041-1069: the error string the body of the for statement
\* computes for the sub-value dfvalue of the cell x
loop_body(x, dfvalue, error_string) ==
    IF x.loop = "NumC" THEN NumC_subvalue(x.c, dfvalue, df[x.id], error_string)
    ELSE IF x.loop = "StrC" THEN StrC_subvalue(x.c, dfvalue, df[x.id])
    ELSE C38_subvalue(dfvalue, df[x.id], StrC_present[Len(StrC_present)])

\* line 819: the loops are entered with the error_string that the loop of column A left
vocabcheck_enter ==
    /\ pc = "vocabcheck_NumC"
    /\ local' = [k |-> 1, dfvalue |-> "", iterator |-> <<>>,
                 error_string |-> error_df[MaxLabel(df)]["A"]]
    /\ pc' = "for_id"
    /\ UNCHANGED <<og, df, id, dtype, COV, T_score_df, PFlag_df, m_dict, domain, error_df, result>>

\* lines 824-827, 916-919 and 1023-1026: error_df.loc[id, c] = None creates the column
\* and empties the cell; dfvalue is the cell of df, in lower case in the date loop
vocabcheck_for_id ==
    /\ pc = "for_id"
    /\ \E x \in {all_cells[local.k]} :
          /\ error_df' = [i \in DOMAIN error_df |->
                             [c \in {x.c} |->
                                 IF i # x.id /\ x.c \in DOMAIN error_df[i]
                                 THEN error_df[i][x.c] ELSE NA]
                             @@ error_df[i]]
          /\ local' = [local EXCEPT !.dfvalue = IF x.loop = "C38" THEN Lower(df[x.id][x.c])
                                                ELSE df[x.id][x.c]]
    /\ pc' = "while_True"
    /\ UNCHANGED <<og, df, id, dtype, COV, T_score_df, PFlag_df, m_dict, domain, result>>

\* lines 838-839, 930-931 and 1037-1038: while True: dfvalue = dfvalue.split(';'); the list
\* is what the for statement iterates over
vocabcheck_while_True ==
    /\ pc = "while_True"
    /\ local' = [local EXCEPT !.iterator = Split(local.dfvalue, ";")]
    /\ pc' = "for_dfvalue"
    /\ UNCHANGED <<og, df, id, dtype, COV, T_score_df, PFlag_df, m_dict, domain, error_df, result>>

\* lines 841, 933 and 1040: 'for dfvalue in dfvalue' takes the next element of the list
vocabcheck_for_dfvalue ==
    /\ pc = "for_dfvalue"
    /\ local.iterator # <<>>
    /\ local' = [local EXCEPT !.dfvalue = for_dfvalue_in(Head(local.iterator), @),
                              !.iterator = Tail(@)]
    /\ pc' = "body"
    /\ UNCHANGED <<og, df, id, dtype, COV, T_score_df, PFlag_df, m_dict, domain, error_df, result>>

\* lines 842-906, 934-1014 and 1041-1073: the body of the for statement; the categorical
\* and the date loop strip dfvalue first; the TypeError of a None compared with a number
\* is not caught
vocabcheck_body ==
    /\ pc = "body"
    /\ \E x \in {all_cells[local.k]} :
          \E e \in {loop_body(x, local.dfvalue, local.error_string)} :
             /\ local' = [local EXCEPT
                             !.dfvalue = IF x.loop = "NumC" THEN @ ELSE Strip(@),
                             !.error_string = IF e = "TypeError" THEN @ ELSE e]
             /\ error_df' = IF e = "TypeError" THEN error_df
                            ELSE [error_df EXCEPT ![x.id][x.c] = e]
             /\ pc' = IF e = "TypeError" THEN "TypeError" ELSE "for_dfvalue"
    /\ UNCHANGED <<og, df, id, dtype, COV, T_score_df, PFlag_df, m_dict, domain, result>>

\* lines 908-911, 1016-1019 and 1076-1079, after the last pass of the for statement:
\* "if ';' not in dfvalue: break", which goes on with the next cell, "else: dfvalue =
\* dfvalue[-1]", which goes round the while loop again
vocabcheck_if_semicolon ==
    /\ pc = "for_dfvalue"
    /\ local.iterator = <<>>
    /\ IF ~Contains(";", local.dfvalue)
       THEN /\ local' = [local EXCEPT !.k = @ + 1]
            /\ pc' = IF local.k < Len(all_cells) THEN "for_id" ELSE "vocabcheck_return"
       ELSE /\ local' = [local EXCEPT !.dfvalue = Char(@, Len(@))]
            /\ pc' = "while_True"
    /\ UNCHANGED <<og, df, id, dtype, COV, T_score_df, PFlag_df, m_dict, domain, error_df, result>>

\* lines 1081-1086: the frame error_msg of the joined strings is returned
vocabcheck_return ==
    /\ pc = "vocabcheck_return"
    /\ result' = [i \in DOMAIN df |-> [Error |-> join(error_df[i], 1)]]
    /\ pc' = "reorder_errors"
    /\ UNCHANGED <<og, df, id, dtype, COV, T_score_df, PFlag_df, m_dict, domain, error_df, local>>

\* records with single and multiple sub-values in a numeric, a categorical and the date
\* column
WRecs ==
    {[EmptyRow(VCols) EXCEPT !["P12"] = "[Drilling]", !["P6"] = a, !["P7"] = b, !["C38"] = d] :
        a \in {"nan", "10;20", "10;", ";"},
        b \in {"nan", "[unspecified];"},
        d \in {"1800-01;2000-01", "2000-01;"}}

InitW ==
    /\ \E form \in Forms, h \in VHeaders, n \in 1..MaxRowsW :
          \E data \in [1..n -> WRecs] : og = VTable(form, h[1], h[2], data)
    /\ pc = "Complete_check"
    /\ df = <<>>
    /\ id = 0
    /\ dtype = {}
    /\ COV = <<>>
    /\ T_score_df = <<>>
    /\ PFlag_df = <<>>
    /\ m_dict = <<>>
    /\ domain = <<>>
    /\ error_df = <<>>
    /\ result = <<>>
    /\ local = <<>>

NextW ==
    \/ Complete_check
    \/ vocabcheck_A
    \/ vocabcheck_enter
    \/ vocabcheck_for_id
    \/ vocabcheck_while_True
    \/ vocabcheck_for_dfvalue
    \/ vocabcheck_body
    \/ vocabcheck_if_semicolon
    \/ vocabcheck_return
    \/ Complete_check_reorder
    \/ VC_attachOG

\* the positions of the validator at which a statement is to be executed, and those at
\* which the program has ended, normally or with an exception
Running ==
    {"Complete_check", "vocabcheck_A", "vocabcheck_NumC", "for_id", "while_True",
     "for_dfvalue", "body", "vocabcheck_return", "reorder_errors", "attachOG"}
Ended == {"done", "KeyError", "TypeError", "ValueError"}

\* the interpreter executes the statement the program is at; every statement of NextW
\* moves the program to another position
interpreter_step == pc \in Running /\ pc' \in (Running \cup Ended) \ {pc}

\* the program is one thread: as long as it has not ended its next statement is executed
SpecW == InitW /\ [][NextW]_vars /\ WF_pc(interpreter_step)

\* C28: each of the three 'while True' loops over the sub-values of a cell is left after
\* finitely many iterations, whatever the cell holds: a while loop that has been entered
\* is left, and vocabcheck returns or ends with an exception.
C28_LoopsExit ==
    /\ (pc = "while_True") ~> (pc \in {"for_id", "vocabcheck_return", "TypeError"})
    /\ <>(pc \in {"vocabcheck_return", "TypeError", "KeyError"})

\* vocabcheck has returned for a table with a record that has several sub-values, the
\* last one empty, in a numeric, a categorical and the date column
C28_Witness ==
    /\ pc = "vocabcheck_return"
    /\ \E i \in DOMAIN df :
          /\ df[i]["P6"] = "10;"
          /\ df[i]["P7"] = "[unspecified];"
          /\ df[i]["C38"] = "2000-01;"
====
